---- MODULE Spec2Model ----
(***************************************************************************)
(* A model of terraform-provider-n8n: the lifecycle handlers of the        *)
(* credential, user, workflow and workflow-activation resources            *)
(* (internal/provider) on top of the REST client (internal/client).        *)
(*                                                                         *)
(* The remote n8n server is part of the state (workflows, users,           *)
(* credentials).  Every lifecycle handler is one action: it draws its plan *)
(* and the remote's answers from small sets, performs all of its remote    *)
(* calls, and leaves behind the Terraform state of its resource and, in    *)
(* `last`, a record of what the operation did (calls sent, diagnostics).   *)
(***************************************************************************)
EXTENDS Integers, Sequences, FiniteSets, TLC

VARIABLES
    workflows,    \* remote: workflow id -> workflow, for the workflows that exist
    users,        \* remote: user id -> user, for the users that exist
    credentials,  \* remote: credential id -> credential
    wfState,      \* Terraform state of the n8n_workflow resource (Null: none)
    actState,     \* Terraform state of the n8n_workflow_activation resource
    userState,    \* Terraform state of the n8n_user resource
    credState,    \* Terraform state of the n8n_credential resource
    dataState,    \* what the last data source Read set as its state (Null: nothing)
    providerData, \* the client the provider handed to resources and data sources
    last          \* the last lifecycle operation: what it was given and what it did

vars == <<workflows, users, credentials, wfState, actState, userState, credState, dataState,
          providerData, last>>

-----------------------------------------------------------------------------
(* Bounds *)

\* The remote assigns ids 1..MaxId to the entities it creates.
MaxId == 2

Ids == 1..MaxId

\* The remote holds at most MaxWorkflows workflows made through n8n_workflow.
MaxWorkflows == 1

\* The id the remote gives the next entity it creates: the lowest one free.
NewId(remote) == CHOOSE x \in Ids \ DOMAIN remote : \A y \in Ids \ DOMAIN remote : x <= y

-----------------------------------------------------------------------------
(* Terraform attribute values (types.String, types.Bool) *)

Null == [k |-> "null"]
Unknown == [k |-> "unknown"]
Val(v) == [k |-> "val", v |-> v]

IsNull(a) == a.k = "null"
IsUnknown(a) == a.k = "unknown"

\* types.String.ValueString of an attribute holding plain text: "" unless known.
ValueString(a) == IF a.k = "val" THEN a.v ELSE ""

-----------------------------------------------------------------------------
(* JSON texts and values.  A text is empty, malformed, or the encoding of  *)
(* a value in some layout; encoding/json always writes the compact one.    *)

EmptyTxt == [wf |-> "empty"]
BadTxt == [wf |-> "bad"]
Json(v, style) == [wf |-> "ok", val |-> v, style |-> style]

\* JSON values: a type tag and the content as a sequence.
JNull == [t |-> "null", c |-> <<>>]
JObj(c) == [t |-> "obj", c |-> c]
JArr(c) == [t |-> "arr", c |-> c]
JStr(s) == [t |-> "str", c |-> <<s>>]
JBool(b) == [t |-> "bool", c |-> <<b>>]
JNum(n) == [t |-> "num", c |-> <<n>>]
Missing == [t |-> "missing", c |-> <<>>]

\* Go values decoded from JSON: nil, or a map / slice with content.
Nil == [t |-> "nil", c |-> <<>>]

\* types.String.ValueString of an attribute holding a JSON text.
ValueText(a) == IF a.k = "val" THEN a.v ELSE EmptyTxt

\* json.Unmarshal(text, &target) where target is a map (want = "obj") or a
\* slice (want = "arr"): JSON null leaves the target nil, a value of the other
\* type or a malformed text is an error.
Unmarshal(text, want) ==
    IF text.wf # "ok" THEN [err |-> TRUE, val |-> Nil]
    ELSE IF text.val.t = "null" THEN [err |-> FALSE, val |-> Nil]
    ELSE IF text.val.t = want THEN [err |-> FALSE, val |-> text.val]
    ELSE [err |-> TRUE, val |-> Nil]

\* json.Marshal of a Go map or slice: compact layout, nil encodes as null.
Marshal(v) == IF v.t = "nil" THEN Json(JNull, "compact") ELSE Json(v, "compact")

-----------------------------------------------------------------------------
(* Text as sequences of tokens; the digits are single characters so that   *)
(* a search for "404" sees them wherever they come from.                   *)

Contains(s, sub) ==
    \E i \in 1..(Len(s) - Len(sub) + 1) : SubSeq(s, i, i + Len(sub) - 1) = sub

Digit(d) == <<"0", "1", "2", "3", "4", "5", "6", "7", "8", "9">>[d + 1]

\* fmt "%d" of a three-digit status code.
Digits(n) == <<Digit(n \div 100), Digit((n \div 10) % 10), Digit(n % 10)>>

NotFoundText == <<"4", "0", "4">>

-----------------------------------------------------------------------------
(* The transport: Client.doRequest over the remote's answer *)

\* Response bodies the remote sends with an error status, and messages of
\* transport failures (which quote the URL, port included).
ErrBodies == { <<"internal error">>, <<"upstream said ", "4", "0", "4">> }
NetMsgs == { <<"timeout">>, <<"dial tcp host:", "5", "4", "0", "4", "0">> }

Http(status, body) == [kind |-> "http", status |-> status, body |-> body]
NetFail(msg) == [kind |-> "net", status |-> 0, body |-> msg]

OK == Http(200, <<>>)
Failures == {Http(500, b) : b \in ErrBodies} \cup {NetFail(m) : m \in NetMsgs}
NotFounds == {Http(404, <<"not found">>)}

\* What the remote may answer to a request on one entity: it serves the
\* request when the entity exists, reports 404 when it does not, and may fail.
Answers(exists) == IF exists THEN {OK} \cup Failures ELSE NotFounds \cup Failures

NoErr == <<>>

doRequestMutant(resp) ==
    IF resp.kind = "net"
    THEN <<"failed to execute request: ">> \o resp.body
    ELSE IF resp.status < 200 \/ resp.status >= 300
    THEN <<"API request failed: ">> \o resp.body
    ELSE NoErr

\* The error doRequest returns for an answer (NoErr: the body is returned).
doRequest(resp) ==
    IF resp.kind = "net"
    THEN <<"failed to execute request: ">> \o resp.body
    ELSE IF resp.status < 200 \/ resp.status >= 300
    THEN <<"API request failed with status ">> \o Digits(resp.status)
             \o <<": ">> \o resp.body
    ELSE NoErr

\* The []byte doRequest returns beside the error: nil with every error, the
\* response body as read otherwise.
Bytes(b) == [nil |-> FALSE, b |-> b]
NilBytes == [nil |-> TRUE, b |-> <<>>]

doRequestBodyMutant(resp) ==
    IF resp.kind = "net" THEN NilBytes ELSE Bytes(resp.body)

doRequestBody(resp) ==
    IF resp.kind = "net"
    THEN NilBytes
    ELSE IF resp.status < 200 \/ resp.status >= 300
    THEN NilBytes
    ELSE Bytes(resp.body)

Call(method, path, id, body) == [m |-> method, p |-> path, id |-> id, body |-> body]

\* The transport on its own: requests of every method answered with statuses
\* on both sides of the 2xx range, with and without a body, or not answered.
Methods == {"GET", "POST", "PUT", "PATCH", "DELETE"}
Paths == {"/api/v1/workflows", "/api/v1/users"}
Statuses == {199, 200, 201, 204, 299, 300, 404, 500}
Bodies == {<<>>, <<"{}">>} \cup ErrBodies
Responses == {Http(s, b) : s \in Statuses, b \in Bodies} \cup {NetFail(m) : m \in NetMsgs}

-----------------------------------------------------------------------------
(* Diagnostics and what the framework does with a handler's response *)

Error(summary, detail) == [sev |-> "error", summary |-> summary, detail |-> detail]
Warning(summary, detail) == [sev |-> "warning", summary |-> summary, detail |-> detail]

HasError(diags) == \E i \in 1..Len(diags) : diags[i].sev = "error"
HasWarning(diags) == \E i \in 1..Len(diags) : diags[i].sev = "warning"

\* The record an operation leaves in `last`.
\* env: what the remote did during the operation (its answers, what it showed).
Op(name, plan, prior, calls, diags, env) ==
    [op |-> name, plan |-> plan, prior |-> prior, calls |-> calls, diags |-> diags,
     env |-> env]

NoEnv == [none |-> TRUE]
NoOp == Op("none", Null, Null, <<>>, <<>>, NoEnv)

\* An answer that is not a success: a transport failure or a status outside 2xx.
Failed(resp) == resp.kind = "net" \/ resp.status < 200 \/ resp.status > 299

\* A handler's outcome: the resource's state afterwards, the calls it sent and
\* its diagnostics.
Outcome(state, calls, diags) == [state |-> state, calls |-> calls, diags |-> diags]

\* Delete handlers never touch resp.State: the framework removes the resource
\* from state when the handler returns without an error diagnostic.
DeleteOutcome(prior, calls, diags) ==
    Outcome(IF HasError(diags) THEN prior ELSE Null, calls, diags)

-----------------------------------------------------------------------------
(* The provider: n8nProvider.Configure and client.NewClient.  The endpoint *)
(* is a text of tokens (empty: <<>>), so that a trailing "/" can be cut.   *)

\* strings.TrimSuffix(s, suffix)
TrimSuffix(s, suffix) ==
    IF Len(s) > 0 /\ s[Len(s)] = suffix THEN SubSeq(s, 1, Len(s) - 1) ELSE s

\* No client (nil), and client.NewClient.
NoClient == [set |-> FALSE, BaseURL |-> <<>>, APIKey |-> ""]
NewClient(baseURL, apiKey) ==
    [set |-> TRUE, BaseURL |-> TrimSuffix(baseURL, "/"), APIKey |-> apiKey]

\* resp.ResourceData and resp.DataSourceData of the provider's Configure.
Handed(c) == [ResourceData |-> c, DataSourceData |-> c]

SampleClient == NewClient(<<"https://n8n.example">>, "key")

\* resp.Diagnostics.AddAttributeError(path.Root(attribute), summary, ...)
AttributeError(attribute, summary) ==
    [sev |-> "error", summary |-> summary, path |-> attribute,
     detail |-> <<"The provider cannot create the n8n API client">>]

\* n8nProvider.Configure: config holds the endpoint and api_key attributes,
\* env what os.Getenv returns for N8N_ENDPOINT and N8N_API_KEY ("" when the
\* variable is not set).  The result is [diags, data].
ConfigureMutant(config, env) ==
    LET endpoint == IF env.N8N_ENDPOINT # <<>> THEN env.N8N_ENDPOINT
                    ELSE IF config.endpoint.k = "val" THEN config.endpoint.v ELSE <<>>
        apiKey == IF env.N8N_API_KEY # "" THEN env.N8N_API_KEY
                  ELSE ValueString(config.api_key)
    IN  IF endpoint = <<>> \/ apiKey = ""
        THEN [diags |-> <<AttributeError("endpoint", "Missing n8n API Endpoint")>>,
              data |-> Handed(NoClient)]
        ELSE [diags |-> <<>>, data |-> Handed(NewClient(endpoint, apiKey))]

Configure(config, env) ==
    LET unknown ==
            (IF IsUnknown(config.endpoint)
             THEN <<AttributeError("endpoint", "Unknown n8n API Endpoint")>> ELSE <<>>)
            \o (IF IsUnknown(config.api_key)
                THEN <<AttributeError("api_key", "Unknown n8n API Key")>> ELSE <<>>)
        endpoint == IF ~IsNull(config.endpoint)
                    THEN (IF config.endpoint.k = "val" THEN config.endpoint.v ELSE <<>>)
                    ELSE env.N8N_ENDPOINT
        apiKey == IF ~IsNull(config.api_key) THEN ValueString(config.api_key)
                  ELSE env.N8N_API_KEY
        missing ==
            (IF endpoint = <<>>
             THEN <<AttributeError("endpoint", "Missing n8n API Endpoint")>> ELSE <<>>)
            \o (IF apiKey = ""
                THEN <<AttributeError("api_key", "Missing n8n API Key")>> ELSE <<>>)
    IN  IF HasError(unknown) THEN [diags |-> unknown, data |-> Handed(NoClient)]
        ELSE IF HasError(missing) THEN [diags |-> missing, data |-> Handed(NoClient)]
        ELSE [diags |-> <<>>, data |-> Handed(NewClient(endpoint, apiKey))]

\* Provider blocks: each attribute absent, not yet known, empty, or set.
ProviderConfigs ==
    [endpoint : {Null, Unknown, Val(<<>>), Val(<<"https://cfg.example">>),
                 Val(<<"https://cfg.example", "/">>)},
     api_key : {Null, Unknown, Val(""), Val("cfg-key")}]

\* The process environment: each variable unset (or empty), or set.
Environments ==
    [N8N_ENDPOINT : {<<>>, <<"https://env.example">>, <<"https://env.example", "/">>},
     N8N_API_KEY : {"", "env-key"}]

ProviderConfigure ==
    /\ \E config \in ProviderConfigs, env \in Environments :
         \E o \in {Configure(config, env)} :
         /\ providerData' = o.data
         /\ last' = Op("ProviderConfigure", config, Null, <<>>, o.diags, env)
    /\ UNCHANGED <<workflows, users, credentials, wfState, actState, userState, credState,
                   dataState>>

-----------------------------------------------------------------------------
(* n8n_credential *)

CredNames == {"c1", "c2"}
CredTypes == {"httpBasicAuth", "slackApi"}
CredData == { Json(JObj(<<"secret1">>), "compact"), Json(JObj(<<"secret2">>), "pretty"),
              Json(JArr(<<>>), "compact"), BadTxt }

CredPlans == [name : {Val(n) : n \in CredNames}, type : {Val(t) : t \in CredTypes},
              data : {Val(d) : d \in CredData}]

CredModel(id, plan) == [id |-> id, name |-> plan.name, type |-> plan.type, data |-> plan.data]

\* Client.CreateCredential / UpdateCredential / DeleteCredential: one request.
CreateCredential(resp) == [err |-> doRequest(resp), calls |-> <<Call("POST", "/api/v1/credentials", 0, <<>>)>>]
UpdateCredential(id, resp) == [err |-> doRequest(resp), calls |-> <<Call("PATCH", "/api/v1/credentials/%s", id, <<>>)>>]
DeleteCredential(id, resp) == [err |-> doRequest(resp), calls |-> <<Call("DELETE", "/api/v1/credentials/%s", id, <<>>)>>]
GetCredential(id, resp) == [err |-> doRequest(resp), calls |-> <<Call("GET", "/api/v1/credentials/%s", id, <<>>)>>]

\* credentialResource.Create: newId is the id in the remote's answer.
credentialResourceCreate(plan, resp, newId) ==
    IF Unmarshal(ValueText(plan.data), "obj").err
    THEN Outcome(Null, <<>>, <<Error("Error parsing data JSON", <<"Could not parse data JSON: ">>)>>)
    ELSE LET r == CreateCredential(resp) IN
         IF r.err # NoErr
         THEN Outcome(Null, r.calls, <<Error("Error creating credential",
                                         <<"Could not create credential, unexpected error: ">> \o r.err)>>)
         ELSE Outcome(CredModel(Val(newId), plan), r.calls, <<>>)

credentialResourceReadMutant(state, resp) ==
    LET r == GetCredential(ValueString(state.id), resp) IN
    IF r.err # NoErr
    THEN Outcome(state, r.calls, <<Error("Error Reading n8n Credential", r.err)>>)
    ELSE Outcome(state, r.calls, <<>>)

\* credentialResource.Read: the stored state is written back as it is.
credentialResourceRead(state, resp) == Outcome(state, <<>>, <<>>)

\* credentialResource.Update
credentialResourceUpdate(plan, prior, resp) ==
    IF Unmarshal(ValueText(plan.data), "obj").err
    THEN Outcome(prior, <<>>, <<Error("Error parsing data JSON", <<"Could not parse data JSON: ">>)>>)
    ELSE LET r == UpdateCredential(ValueString(prior.id), resp) IN
         IF r.err # NoErr
         THEN Outcome(prior, r.calls, <<Error("Error Updating n8n Credential",
                                          <<"Could not update credential, unexpected error: ">> \o r.err)>>)
         ELSE Outcome(CredModel(prior.id, plan), r.calls, <<>>)

\* credentialResource.Delete
credentialResourceDelete(prior, resp) ==
    LET r == DeleteCredential(ValueString(prior.id), resp) IN
    IF r.err # NoErr
    THEN DeleteOutcome(prior, r.calls,
                       <<Error("Error Deleting n8n Credential",
                               <<"Could not delete credential, unexpected error: ">> \o r.err)>>)
    ELSE DeleteOutcome(prior, r.calls, <<>>)

CredIdOf(state) == IF state.id.k = "val" THEN state.id.v ELSE 0

CredentialCreate ==
    /\ credState = Null
    /\ Ids \ DOMAIN credentials # {}
    /\ \E plan \in CredPlans, resp \in {OK} \cup Failures :
         LET id == NewId(credentials)
             o == credentialResourceCreate(plan, resp, id)
             sent == Len(o.calls) > 0 /\ doRequest(resp) = NoErr IN
         /\ credState' = o.state
         /\ credentials' = IF sent
                           THEN [i \in DOMAIN credentials \cup {id} |->
                                   IF i = id THEN [name |-> plan.name.v, type |-> plan.type.v,
                                                   data |-> Unmarshal(plan.data.v, "obj").val]
                                   ELSE credentials[i]]
                           ELSE credentials
         /\ last' = Op("CredentialCreate", plan, Null, o.calls, o.diags, [post |-> resp])
    /\ UNCHANGED <<dataState, providerData, workflows, users, wfState, actState, userState>>

CredentialRead ==
    /\ credState # Null
    /\ \E resp \in Answers(CredIdOf(credState) \in DOMAIN credentials) :
         LET o == credentialResourceRead(credState, resp) IN
         /\ credState' = o.state
         /\ last' = Op("CredentialRead", Null, credState, o.calls, o.diags, NoEnv)
    /\ UNCHANGED <<dataState, providerData,
                   workflows, users, credentials, wfState, actState, userState>>

CredentialUpdate ==
    /\ credState # Null
    /\ \E plan \in CredPlans, resp \in Answers(CredIdOf(credState) \in DOMAIN credentials) :
         LET o == credentialResourceUpdate(plan, credState, resp)
             id == CredIdOf(credState)
             sent == Len(o.calls) > 0 /\ doRequest(resp) = NoErr IN
         /\ credState' = o.state
         /\ credentials' = IF sent
                           THEN [credentials EXCEPT ![id] =
                                   [name |-> plan.name.v, type |-> plan.type.v,
                                    data |-> Unmarshal(plan.data.v, "obj").val]]
                           ELSE credentials
         /\ last' = Op("CredentialUpdate", plan, credState, o.calls, o.diags, [patch |-> resp])
    /\ UNCHANGED <<dataState, providerData, workflows, users, wfState, actState, userState>>

CredentialDelete ==
    /\ credState # Null
    /\ \E resp \in Answers(CredIdOf(credState) \in DOMAIN credentials) :
         LET o == credentialResourceDelete(credState, resp)
             id == CredIdOf(credState) IN
         /\ credState' = o.state
         /\ credentials' = IF doRequest(resp) = NoErr
                           THEN [i \in DOMAIN credentials \ {id} |-> credentials[i]]
                           ELSE credentials
         /\ last' = Op("CredentialDelete", Null, credState, o.calls, o.diags, [delete |-> resp])
    /\ UNCHANGED <<dataState, providerData, workflows, users, wfState, actState, userState>>

\* credentialResource.ImportState: the import id becomes the id attribute, the
\* other attributes are null until something sets them.
CredentialImport ==
    /\ credState = Null
    /\ \E id \in Ids :
         /\ credState' = [id |-> Val(id), name |-> Null, type |-> Null, data |-> Null]
         /\ last' = Op("CredentialImport", Null, Null, <<>>, <<>>, NoEnv)
    /\ UNCHANGED <<dataState, providerData,
                   workflows, users, credentials, wfState, actState, userState>>

\* Someone removes a credential on the remote, outside Terraform.
CredentialRemovedUpstream ==
    /\ \E id \in DOMAIN credentials :
         credentials' = [i \in DOMAIN credentials \ {id} |-> credentials[i]]
    /\ last' = NoOp
    /\ UNCHANGED <<dataState, providerData,
                   workflows, users, wfState, actState, userState, credState>>

\* credentialDataSource.Read: config is the data source's configuration.
credentialDataSourceReadMutant(config, resp) ==
    LET r == GetCredential(CredIdOf(config), resp) IN
    IF r.err # NoErr
    THEN Outcome(Null, r.calls, <<Error("Error Reading n8n Credential", r.err)>>)
    ELSE Outcome(config, r.calls, <<>>)

credentialDataSourceRead(config, resp) ==
    Outcome(Null, <<>>,
            <<Error("n8n Credential Data Source Not Supported",
                    <<"The n8n API does not support reading credentials for security reasons. ",
                      "Credential data sources cannot be used. ",
                      "If you need to reference a credential, use the resource directly",
                      "Credential ID provided: ", CredIdOf(config)>>)>>)

CredentialDataRead ==
    /\ \E id \in Ids :
         \E resp \in Answers(id \in DOMAIN credentials) :
         LET config == [id |-> Val(id), name |-> Null, type |-> Null, data |-> Null]
             o == credentialDataSourceRead(config, resp) IN
         /\ Len(o.calls) = 0 => resp \in {OK} \cup NotFounds
         /\ dataState' = o.state
         /\ last' = Op("CredentialDataRead", config, Null, o.calls, o.diags,
                       [exists |-> id \in DOMAIN credentials])
    /\ UNCHANGED <<providerData, workflows, users, credentials, wfState, actState,
                   userState, credState>>

EmptyRemote == [i \in {} |-> Null]

\* The resources work with the client of a provider that is configured.
InitCredential ==
    /\ workflows = EmptyRemote /\ users = EmptyRemote /\ credentials = EmptyRemote
    /\ wfState = Null /\ actState = Null /\ userState = Null /\ credState = Null
    /\ dataState = Null /\ providerData = Handed(SampleClient)
    /\ last = NoOp

NextCredential ==
    \/ CredentialCreate
    \/ CredentialRead
    \/ CredentialUpdate
    \/ CredentialDelete
    \/ CredentialImport
    \/ CredentialRemovedUpstream
    \/ CredentialDataRead

SpecCredential == InitCredential /\ [][NextCredential]_vars

TransportRequest ==
    /\ \E method \in Methods, path \in Paths, resp \in Responses :
         last' = Op("doRequest", Null, Null, <<Call(method, path, 0, <<>>)>>, <<>>,
                    [resp |-> resp, body |-> doRequestBody(resp), err |-> doRequest(resp)])
    /\ UNCHANGED <<dataState, providerData, workflows, users, credentials, wfState, actState,
                   userState, credState>>

InitTransport == InitCredential

NextTransport == TransportRequest

SpecTransport == InitTransport /\ [][NextTransport]_vars

InitProvider ==
    /\ workflows = EmptyRemote /\ users = EmptyRemote /\ credentials = EmptyRemote
    /\ wfState = Null /\ actState = Null /\ userState = Null /\ credState = Null
    /\ dataState = Null /\ providerData = Handed(NoClient)
    /\ last = NoOp

NextProvider == ProviderConfigure

SpecProvider == InitProvider /\ [][NextProvider]_vars

-----------------------------------------------------------------------------
(* The remote's disposition towards one request: it serves it (answering   *)
(* 404, with the given body, when the entity does not exist) or fails.     *)

Serve == [kind |-> "serve", status |-> 0, body |-> <<>>]
Moods == {Serve} \cup Failures

\* The remote does not serve the request.
Refuses(mood) == mood.kind # "serve"

\* The dispositions drawn for requests that change something: their failures
\* are only reported, never inspected, so one of each kind is drawn.
WriteMoods == {Serve, Http(500, <<"internal error">>), NetFail(<<"timeout">>)}

Answer(mood, exists) ==
    IF mood.kind = "serve"
    THEN IF exists THEN OK ELSE Http(404, <<"not found">>)
    ELSE mood

Without(remote, id) == [i \in DOMAIN remote \ {id} |-> remote[i]]
With(remote, id, v) == [i \in DOMAIN remote \cup {id} |-> IF i = id THEN v ELSE remote[i]]

\* strings.Contains(err.Error(), "404"): how the handlers recognise not-found.
Is404Mutant(err) == FALSE

Is404(err) == Contains(err, NotFoundText)

-----------------------------------------------------------------------------
(* n8n_user *)

Emails == {"ann@example.com"}
DefaultRole == "global:member"
Roles == {DefaultRole, "global:admin", ""}

\* How a GET of a user presents the role: in "role", in "globalRole" (older
\* servers), or not at all.
UserShows == {"role", "globalRole", "none"}

\* client.User as decoded from a GET answer.
ShowUser(id, u, show) ==
    [id |-> id, email |-> u.email,
     role |-> IF show = "role" THEN u.role ELSE "",
     globalRole |-> IF show = "globalRole" THEN u.role ELSE "",
     isOwner |-> u.isOwner, isPending |-> u.isPending,
     createdAt |-> u.createdAt, updatedAt |-> u.updatedAt]

NoUser == [id |-> 0, email |-> "", role |-> "", globalRole |-> "", isOwner |-> FALSE,
           isPending |-> FALSE, createdAt |-> "", updatedAt |-> ""]

\* User.GetRole
GetRole(u) == IF u.role # "" THEN u.role ELSE u.globalRole

\* User.SetRole
SetRole(u, role) == [u EXCEPT !.role = role, !.globalRole = role]

\* The role fallback of CreateUser and UpdateUser: when the user read back
\* carries no role and one was requested, the requested role is kept.
PreserveRoleMutant(u, requested) == u

PreserveRole(u, requested) ==
    IF GetRole(u) = "" /\ requested # "" THEN SetRole(u, requested) ELSE u

\* Client.GetUser.  The result is [err, calls, user].
GetUser(remote, id, mood, show) ==
    LET resp == Answer(mood, id \in DOMAIN remote)
        err == doRequest(resp) IN
    [err |-> err, calls |-> <<Call("GET", "/api/v1/users/%s", id, <<>>)>>,
     user |-> IF err = NoErr THEN ShowUser(id, remote[id], show) ELSE NoUser]

\* What the bulk-creation endpoint answers for the one user sent, as the
\* list of results: a result with the user, a result carrying an error, no
\* result at all, or the user's result with a further, failed one behind it.
CreateResults == {<<"user">>, <<"error">>, <<>>, <<"user", "error">>}

\* results[0] is there and results[0].Error is empty.
FirstIsUser(results) == Len(results) > 0 /\ results[1] = "user"

\* The remote after a served POST /api/v1/users for one user.
UsersAfterCreate(remote, req, result, newId) ==
    IF FirstIsUser(result)
    THEN With(remote, newId,
              [email |-> req.email, role |-> IF req.role = "" THEN DefaultRole ELSE req.role,
               isOwner |-> FALSE, isPending |-> TRUE, createdAt |-> "t1", updatedAt |-> "t1"])
    ELSE remote

\* Client.CreateUser.  a = [post, result, newId, get, show]: the remote's
\* dispositions.  The result is [err, calls, user, remote].
CreateUserMutant(remote, user, a) ==
    LET request == [email |-> user.email, role |-> user.role]
        post == Call("POST", "/api/v1/users", 0, <<<<request>>>>)
        postErr == doRequest(Answer(a.post, TRUE))
        created == UsersAfterCreate(remote, request, a.result, a.newId)
        got == GetUser(created, a.newId, a.get, a.show)
    IN  IF postErr # NoErr
        THEN [err |-> postErr, calls |-> <<post>>, user |-> NoUser, remote |-> remote]
        ELSE IF Len(a.result) = 0
        THEN [err |-> <<"no user returned from API">>, calls |-> <<post>>,
              user |-> NoUser, remote |-> created]
        ELSE IF \E i \in 1..Len(a.result) : a.result[i] = "error"
        THEN [err |-> <<"API error: ">>, calls |-> <<post>>, user |-> NoUser,
              remote |-> created]
        ELSE IF got.err # NoErr
        THEN [err |-> got.err, calls |-> <<post>> \o got.calls, user |-> NoUser,
              remote |-> created]
        ELSE [err |-> NoErr, calls |-> <<post>> \o got.calls,
              user |-> PreserveRole(got.user, user.role), remote |-> created]

CreateUser(remote, user, a) ==
    LET request == [email |-> user.email, role |-> user.role]
        requests == <<request>>
        post == Call("POST", "/api/v1/users", 0, <<requests>>)
        postErr == doRequest(Answer(a.post, TRUE))
        created == UsersAfterCreate(remote, request, a.result, a.newId)
        got == GetUser(created, a.newId, a.get, a.show)
    IN  IF postErr # NoErr
        THEN [err |-> postErr, calls |-> <<post>>, user |-> NoUser, remote |-> remote]
        ELSE IF Len(a.result) = 0
        THEN [err |-> <<"no user returned from API">>, calls |-> <<post>>,
              user |-> NoUser, remote |-> created]
        ELSE IF a.result[1] = "error"
        THEN [err |-> <<"API error: ">>, calls |-> <<post>>, user |-> NoUser,
              remote |-> created]
        ELSE IF got.err # NoErr
        THEN [err |-> got.err, calls |-> <<post>> \o got.calls, user |-> NoUser,
              remote |-> created]
        ELSE [err |-> NoErr, calls |-> <<post>> \o got.calls,
              user |-> PreserveRole(got.user, user.role), remote |-> created]

UpdateUserMutant(remote, id, user, a) ==
    LET request == [newRoleName |-> user.role, email |-> user.email]
        patch == Call("PATCH", "/api/v1/users/%s/role", id, <<request>>)
        patchErr == doRequest(Answer(a.patch, id \in DOMAIN remote))
        patched == IF patchErr = NoErr
                   THEN [remote EXCEPT ![id].role = user.role, ![id].email = user.email]
                   ELSE remote
        got == GetUser(patched, id, a.get, a.show)
    IN  IF patchErr # NoErr
        THEN [err |-> patchErr, calls |-> <<patch>>, user |-> NoUser, remote |-> remote]
        ELSE IF got.err # NoErr
        THEN [err |-> got.err, calls |-> <<patch>> \o got.calls, user |-> NoUser,
              remote |-> patched]
        ELSE [err |-> NoErr, calls |-> <<patch>> \o got.calls,
              user |-> PreserveRole(got.user, user.role), remote |-> patched]

\* Client.UpdateUser.  a = [patch, get, show].
UpdateUser(remote, id, user, a) ==
    LET request == [newRoleName |-> user.role]
        patch == Call("PATCH", "/api/v1/users/%s/role", id, <<request>>)
        patchErr == doRequest(Answer(a.patch, id \in DOMAIN remote))
        patched == IF user.role # "" /\ patchErr = NoErr
                   THEN [remote EXCEPT ![id].role = user.role]
                   ELSE remote
        sent == IF user.role # "" THEN <<patch>> ELSE <<>>
        got == GetUser(patched, id, a.get, a.show)
    IN  IF user.role # "" /\ patchErr # NoErr
        THEN [err |-> patchErr, calls |-> sent, user |-> NoUser, remote |-> remote]
        ELSE IF got.err # NoErr
        THEN [err |-> got.err, calls |-> sent \o got.calls, user |-> NoUser,
              remote |-> patched]
        ELSE [err |-> NoErr, calls |-> sent \o got.calls,
              user |-> PreserveRole(got.user, user.role), remote |-> patched]

\* Client.DeleteUser
DeleteUser(remote, id, mood) ==
    LET err == doRequest(Answer(mood, id \in DOMAIN remote)) IN
    [err |-> err, calls |-> <<Call("DELETE", "/api/v1/users/%s", id, <<>>)>>,
     remote |-> IF err = NoErr THEN Without(remote, id) ELSE remote]

\* userResourceModel filled from a client.User, as Create, Read and Update do.
UserModel(id, u) ==
    [id |-> id, email |-> Val(u.email), role |-> Val(GetRole(u)),
     is_owner |-> Val(u.isOwner), is_pending |-> Val(u.isPending),
     created_at |-> Val(u.createdAt), updated_at |-> Val(u.updatedAt)]

IdOf(state) == IF state.id.k = "val" THEN state.id.v ELSE 0

\* A handler's outcome together with the remote it leaves behind.
Result(state, remote, calls, diags) ==
    [state |-> state, remote |-> remote, calls |-> calls, diags |-> diags]

\* userResource.Create
userResourceCreate(remote, plan, a) ==
    LET user == [email |-> ValueString(plan.email), role |-> ValueString(plan.role)]
        r == CreateUser(remote, user, a)
    IN  IF r.err # NoErr
        THEN Result(Null, r.remote, r.calls, <<Error("Error creating user",
                                  <<"Could not create user, unexpected error: ">> \o r.err)>>)
        ELSE Result(UserModel(Val(r.user.id), r.user), r.remote, r.calls, <<>>)

\* userResource.Read
userResourceRead(remote, state, mood, show) ==
    LET r == GetUser(remote, IdOf(state), mood, show)
    IN  IF r.err # NoErr
        THEN IF Is404(r.err)
             THEN Result(Null, remote, r.calls, <<>>)
             ELSE Result(state, remote, r.calls,
                         <<Error("Error Reading n8n User",
                                 <<"Could not read n8n user ID ", IdOf(state), ": ">> \o r.err)>>)
        ELSE Result(UserModel(state.id, r.user), remote, r.calls, <<>>)

\* userResource.Update
userResourceUpdate(remote, plan, prior, a) ==
    LET user == [email |-> "", role |-> ValueString(plan.role)]
        r == UpdateUser(remote, IdOf(plan), user, a)
    IN  IF r.err # NoErr
        THEN Result(prior, r.remote, r.calls, <<Error("Error Updating n8n User",
                                  <<"Could not update user, unexpected error: ">> \o r.err)>>)
        ELSE Result(UserModel(plan.id, r.user), r.remote, r.calls, <<>>)

userResourceDeleteMutant(remote, prior, mood) ==
    LET r == DeleteUser(remote, IdOf(prior), mood)
        diags == IF r.err # NoErr THEN <<Error("Error Deleting n8n User", r.err)>> ELSE <<>>
        o == DeleteOutcome(prior, r.calls, diags)
    IN  Result(o.state, r.remote, o.calls, o.diags)

\* userResource.Delete: a failed remote delete is reported as a warning only.
userResourceDelete(remote, prior, mood) ==
    LET r == DeleteUser(remote, IdOf(prior), mood)
        diags == IF r.err # NoErr
                 THEN <<Warning("Error Deleting n8n User",
                                <<"Could not delete user ", IdOf(prior), " via API: ">> \o r.err
                                  \o <<". The user may need to be deleted manually through the n8n UI.",
                                       " The resource will be removed from Terraform state.">>)>>
                 ELSE <<>>
        o == DeleteOutcome(prior, r.calls, diags)
    IN  Result(o.state, r.remote, o.calls, o.diags)

UserPlans == [email : {Val(e) : e \in Emails}, role : {Val(r) : r \in Roles}]

UserCreate ==
    /\ userState = Null
    /\ Ids \ DOMAIN users # {}
    /\ \E plan \in UserPlans, post \in WriteMoods, result \in CreateResults,
          get \in Moods, show \in UserShows :
         LET newId == NewId(users)
             a == [post |-> post, result |-> result, newId |-> newId, get |-> get,
                   show |-> show]
             o == userResourceCreate(users, plan, a) IN
         \* dispositions the operation never gets to see are fixed
         /\ Refuses(post) => result = <<"user">>
         /\ (Refuses(post) \/ ~FirstIsUser(result)) => get = Serve
         /\ Refuses(get) => show = "role"
         /\ userState' = o.state
         /\ users' = o.remote
         /\ last' = Op("UserCreate", plan, Null, o.calls, o.diags,
                    [id |-> newId, post |-> Answer(post, TRUE), result |-> result,
                     get |-> Answer(get, TRUE), show |-> show])
    /\ UNCHANGED <<dataState, providerData,
                   workflows, credentials, wfState, actState, credState>>

UserRead ==
    /\ userState # Null
    /\ \E mood \in Moods, show \in UserShows :
         LET o == userResourceRead(users, userState, mood, show) IN
         /\ Failed(Answer(mood, IdOf(userState) \in DOMAIN users)) => show = "role"
         /\ userState' = o.state
         /\ users' = o.remote
         /\ last' = Op("UserRead", Null, userState, o.calls, o.diags,
                    [get |-> Answer(mood, IdOf(userState) \in DOMAIN users), show |-> show])
    /\ UNCHANGED <<dataState, providerData,
                   workflows, credentials, wfState, actState, credState>>

\* The plan of an Update keeps id and email of the state (email forces
\* replacement when it changes) and carries the configured role.
UserUpdate ==
    /\ userState # Null
    /\ \E role \in Roles, patch \in WriteMoods, get \in Moods, show \in UserShows :
         LET plan == [userState EXCEPT !.role = Val(role)]
             a == [patch |-> patch, get |-> get, show |-> show]
             o == userResourceUpdate(users, plan, userState, a) IN
         /\ (role # "" /\ Failed(Answer(patch, IdOf(userState) \in DOMAIN users)))
                => get = Serve
         /\ Failed(Answer(get, IdOf(userState) \in DOMAIN users)) => show = "role"
         /\ userState' = o.state
         /\ users' = o.remote
         /\ last' = Op("UserUpdate", plan, userState, o.calls, o.diags,
                    [patch |-> Answer(patch, IdOf(userState) \in DOMAIN users),
                     get |-> Answer(get, IdOf(userState) \in DOMAIN users), show |-> show])
    /\ UNCHANGED <<dataState, providerData,
                   workflows, credentials, wfState, actState, credState>>

UserDelete ==
    /\ userState # Null
    /\ \E mood \in WriteMoods :
         LET o == userResourceDelete(users, userState, mood) IN
         /\ userState' = o.state
         /\ users' = o.remote
         /\ last' = Op("UserDelete", Null, userState, o.calls, o.diags,
                    [delete |-> Answer(mood, IdOf(userState) \in DOMAIN users)])
    /\ UNCHANGED <<dataState, providerData,
                   workflows, credentials, wfState, actState, credState>>

\* userResource.ImportState: the import id becomes the id attribute.
UserImport ==
    /\ userState = Null
    /\ \E id \in Ids :
         /\ userState' = [id |-> Val(id), email |-> Null, role |-> Null, is_owner |-> Null,
                          is_pending |-> Null, created_at |-> Null, updated_at |-> Null]
         /\ last' = Op("UserImport", Null, Null, <<>>, <<>>, NoEnv)
    /\ UNCHANGED <<dataState, providerData,
                   workflows, users, credentials, wfState, actState, credState>>

\* Someone removes a user on the remote, outside Terraform.
UserRemovedUpstream ==
    /\ \E id \in DOMAIN users : users' = Without(users, id)
    /\ last' = NoOp
    /\ UNCHANGED <<dataState, providerData,
                   workflows, credentials, wfState, actState, userState, credState>>

InitUser == InitCredential

NextUser ==
    \/ UserCreate
    \/ UserRead
    \/ UserUpdate
    \/ UserDelete
    \/ UserImport
    \/ UserRemovedUpstream

SpecUser == InitUser /\ [][NextUser]_vars

-----------------------------------------------------------------------------
(* The workflow endpoints of the client used by both workflow resources *)

\* client.Workflow as decoded from an answer of the remote.
ShowWorkflow(id, w) ==
    [id |-> id, name |-> w.name, active |-> w.active, nodes |-> w.nodes,
     connections |-> w.connections, settings |-> w.settings, tags |-> w.tags,
     createdAt |-> w.createdAt, updatedAt |-> w.updatedAt]

NoWorkflow ==
    [id |-> 0, name |-> "", active |-> FALSE, nodes |-> Nil, connections |-> Nil,
     settings |-> Nil, tags |-> <<>>, createdAt |-> "", updatedAt |-> ""]

\* Client.GetWorkflow.  The result is [err, calls, workflow].
GetWorkflow(remote, id, mood) ==
    LET err == doRequest(Answer(mood, id \in DOMAIN remote)) IN
    [err |-> err, calls |-> <<Call("GET", "/api/v1/workflows/%s", id, <<>>)>>,
     workflow |-> IF err = NoErr THEN ShowWorkflow(id, remote[id]) ELSE NoWorkflow]

\* Client.ActivateWorkflow.  The result is [err, calls, remote].
ActivateWorkflow(remote, id, mood) ==
    LET err == doRequest(Answer(mood, id \in DOMAIN remote)) IN
    [err |-> err, calls |-> <<Call("POST", "/api/v1/workflows/%s/activate", id, <<>>)>>,
     remote |-> IF err = NoErr THEN [remote EXCEPT ![id].active = TRUE] ELSE remote]

\* Client.DeactivateWorkflow
DeactivateWorkflow(remote, id, mood) ==
    LET err == doRequest(Answer(mood, id \in DOMAIN remote)) IN
    [err |-> err, calls |-> <<Call("POST", "/api/v1/workflows/%s/deactivate", id, <<>>)>>,
     remote |-> IF err = NoErr THEN [remote EXCEPT ![id].active = FALSE] ELSE remote]

\* Client.DeleteWorkflow
DeleteWorkflow(remote, id, mood) ==
    LET err == doRequest(Answer(mood, id \in DOMAIN remote)) IN
    [err |-> err, calls |-> <<Call("DELETE", "/api/v1/workflows/%s", id, <<>>)>>,
     remote |-> IF err = NoErr THEN Without(remote, id) ELSE remote]

-----------------------------------------------------------------------------
(* n8n_workflow_activation *)

\* types.Bool.ValueBool: false unless known.
ValueBool(a) == IF a.k = "val" THEN a.v ELSE FALSE

ActivationModel(id, workflowId, active) ==
    [id |-> id, workflow_id |-> workflowId, active |-> active]

ActivationPlans == [workflow_id : {Val(i) : i \in Ids}, active : {Val(b) : b \in BOOLEAN}]

\* The transition Create issues for the planned value and the flag it read.
CreateTransitionMutant(planned, current) ==
    IF planned THEN "activate" ELSE "deactivate"

CreateTransition(planned, current) ==
    IF planned /\ ~current THEN "activate"
    ELSE IF ~planned /\ current THEN "deactivate"
    ELSE "none"

UpdateTransitionMutant(planned, stored) ==
    IF planned # stored THEN (IF planned THEN "deactivate" ELSE "activate") ELSE "none"

\* The transition Update issues for the planned value and the stored one.
UpdateTransition(planned, stored) ==
    IF planned # stored THEN (IF planned THEN "activate" ELSE "deactivate") ELSE "none"

\* The transition Delete issues for the flag it read.
DeleteTransition(current) == IF current THEN "deactivate" ELSE "none"

\* The transition call itself.  The result is [err, calls, remote].
Transition(remote, id, which, mood) ==
    IF which = "activate" THEN ActivateWorkflow(remote, id, mood)
    ELSE IF which = "deactivate" THEN DeactivateWorkflow(remote, id, mood)
    ELSE [err |-> NoErr, calls |-> <<>>, remote |-> remote]

TransitionError(which, err) ==
    IF which = "activate"
    THEN Error("Error Activating Workflow", <<"Could not activate workflow: ">> \o err)
    ELSE Error("Error Deactivating Workflow", <<"Could not deactivate workflow: ">> \o err)

ReadError(id, err) ==
    Error("Error Reading Workflow", <<"Could not read workflow ID ", id, ": ">> \o err)

workflowActivationResourceCreateMutant(remote, plan, a) ==
    LET id == plan.workflow_id.v
        got == GetWorkflow(remote, id, a.get)
        which == CreateTransition(ValueBool(plan.active), got.workflow.active)
        sw == Transition(remote, id, which, a.switch)
    IN  IF got.err # NoErr
        THEN Result(Null, remote, got.calls, <<ReadError(id, got.err)>>)
        ELSE IF sw.err # NoErr
        THEN Result(Null, sw.remote, got.calls \o sw.calls, <<TransitionError(which, sw.err)>>)
        ELSE Result(ActivationModel(Unknown, plan.workflow_id, plan.active),
                    sw.remote, got.calls \o sw.calls, <<>>)

\* workflowActivationResource.Create.  a = [get, switch]: the remote's
\* dispositions towards the read and the transition call.
workflowActivationResourceCreate(remote, plan, a) ==
    LET id == plan.workflow_id.v
        got == GetWorkflow(remote, id, a.get)
        which == CreateTransition(ValueBool(plan.active), got.workflow.active)
        sw == Transition(remote, id, which, a.switch)
    IN  IF got.err # NoErr
        THEN IF Is404(got.err)
             THEN Result(Null, remote, got.calls,
                         <<Error("Workflow Not Found",
                                 <<"The workflow with ID ", id,
                                   " does not exist. Please ensure the workflow is created",
                                   " before managing its activation state.">>)>>)
             ELSE Result(Null, remote, got.calls, <<ReadError(id, got.err)>>)
        ELSE IF sw.err # NoErr
        THEN Result(Null, sw.remote, got.calls \o sw.calls, <<TransitionError(which, sw.err)>>)
        ELSE Result(ActivationModel(plan.workflow_id, plan.workflow_id, plan.active),
                    sw.remote, got.calls \o sw.calls, <<>>)

workflowActivationResourceReadMutant(remote, state, mood) ==
    LET id == IdOf([id |-> state.workflow_id])
        got == GetWorkflow(remote, id, mood)
    IN  IF got.err # NoErr
        THEN IF Is404(got.err)
             THEN Result(Null, remote, got.calls, <<>>)
             ELSE Result(state, remote, got.calls, <<ReadError(id, got.err)>>)
        ELSE Result(state, remote, got.calls, <<>>)

\* workflowActivationResource.Read
workflowActivationResourceRead(remote, state, mood) ==
    LET id == IdOf([id |-> state.workflow_id])
        got == GetWorkflow(remote, id, mood)
    IN  IF got.err # NoErr
        THEN IF Is404(got.err)
             THEN Result(Null, remote, got.calls, <<>>)
             ELSE Result(state, remote, got.calls, <<ReadError(id, got.err)>>)
        ELSE Result([state EXCEPT !.active = Val(got.workflow.active)], remote, got.calls, <<>>)

\* workflowActivationResource.Update
workflowActivationResourceUpdate(remote, plan, prior, mood) ==
    LET id == plan.workflow_id.v
        which == UpdateTransition(ValueBool(plan.active), ValueBool(prior.active))
        sw == Transition(remote, id, which, mood)
    IN  IF sw.err # NoErr
        THEN Result(prior, sw.remote, sw.calls, <<TransitionError(which, sw.err)>>)
        ELSE Result(plan, sw.remote, sw.calls, <<>>)

\* workflowActivationResource.Delete.  a = [get, switch].
workflowActivationResourceDelete(remote, prior, a) ==
    LET id == IdOf([id |-> prior.workflow_id])
        got == GetWorkflow(remote, id, a.get)
        which == DeleteTransition(got.workflow.active)
        sw == Transition(remote, id, which, a.switch)
        done(r, calls, diags) ==
            LET o == DeleteOutcome(prior, calls, diags) IN Result(o.state, r, o.calls, o.diags)
    IN  IF got.err # NoErr
        THEN IF Is404(got.err)
             THEN done(remote, got.calls, <<>>)
             ELSE done(remote, got.calls, <<ReadError(id, got.err)>>)
        ELSE IF sw.err # NoErr
        THEN done(sw.remote, got.calls \o sw.calls, <<TransitionError(which, sw.err)>>)
        ELSE done(sw.remote, got.calls \o sw.calls, <<>>)

\* What the remote did in an activation operation on workflow id: whether the
\* workflow existed and was active when the operation began, and its answers.
ActivationEnv(id, get, switch) ==
    [exists |-> id \in DOMAIN workflows,
     active |-> id \in DOMAIN workflows /\ workflows[id].active,
     get |-> Answer(get, id \in DOMAIN workflows),
     switch |-> Answer(switch, id \in DOMAIN workflows)]

ActivationCreate ==
    /\ actState = Null
    /\ \E plan \in ActivationPlans, get \in Moods, switch \in Moods :
         LET id == plan.workflow_id.v
             env == ActivationEnv(id, get, switch)
             o == workflowActivationResourceCreate(workflows, plan, [get |-> get, switch |-> switch])
         IN  /\ Len(o.calls) < 2 => switch = Serve
             /\ actState' = o.state
             /\ workflows' = o.remote
             /\ last' = Op("ActivationCreate", plan, Null, o.calls, o.diags, env)
    /\ UNCHANGED <<dataState, providerData, users, credentials, wfState, userState, credState>>

ActivationRead ==
    /\ actState # Null
    /\ \E get \in Moods :
         LET id == actState.workflow_id.v
             o == workflowActivationResourceRead(workflows, actState, get)
         IN  /\ actState' = o.state
             /\ workflows' = o.remote
             /\ last' = Op("ActivationRead", Null, actState, o.calls, o.diags,
                           ActivationEnv(id, get, Serve))
    /\ UNCHANGED <<dataState, providerData, users, credentials, wfState, userState, credState>>

\* The plan of an Update keeps id and workflow_id of the state (workflow_id
\* forces replacement when it changes) and carries the configured active,
\* which differs from the stored one: a plan without a change is not applied.
ActivationUpdate ==
    /\ actState # Null
    /\ \E active \in BOOLEAN, switch \in Moods :
         /\ Val(active) # actState.active
         /\ LET id == actState.workflow_id.v
                plan == [actState EXCEPT !.active = Val(active)]
                o == workflowActivationResourceUpdate(workflows, plan, actState, switch)
            IN  /\ Len(o.calls) = 0 => switch = Serve
                /\ actState' = o.state
                /\ workflows' = o.remote
                /\ last' = Op("ActivationUpdate", plan, actState, o.calls, o.diags,
                              ActivationEnv(id, Serve, switch))
    /\ UNCHANGED <<dataState, providerData, users, credentials, wfState, userState, credState>>

ActivationDelete ==
    /\ actState # Null
    /\ \E get \in Moods, switch \in Moods :
         LET id == actState.workflow_id.v
             o == workflowActivationResourceDelete(workflows, actState, [get |-> get, switch |-> switch])
         IN  /\ Len(o.calls) < 2 => switch = Serve
             /\ actState' = o.state
             /\ workflows' = o.remote
             /\ last' = Op("ActivationDelete", Null, actState, o.calls, o.diags,
                           ActivationEnv(id, get, switch))
    /\ UNCHANGED <<dataState, providerData, users, credentials, wfState, userState, credState>>

\* workflowActivationResource.ImportState: id and workflow_id are both set to
\* the import id.  The imported state is read before it is stored, and is
\* stored only when that Read ends without error.
ActivationImport ==
    /\ actState = Null
    /\ \E id \in Ids, get \in Moods :
         \E o \in {workflowActivationResourceRead(workflows,
                        ActivationModel(Val(id), Val(id), Null), get)} :
         /\ actState' = IF HasError(o.diags) THEN Null ELSE o.state
         /\ last' = Op("ActivationImport", Null, Null, o.calls, o.diags,
                       ActivationEnv(id, get, Serve))
    /\ UNCHANGED <<dataState, providerData,
                   workflows, users, credentials, wfState, userState, credState>>

\* Outside Terraform: someone removes a workflow, or switches it on or off in
\* the n8n editor.
WorkflowRemovedUpstream ==
    /\ \E id \in DOMAIN workflows : workflows' = Without(workflows, id)
    /\ last' = NoOp
    /\ UNCHANGED <<dataState, providerData,
                   users, credentials, wfState, actState, userState, credState>>

WorkflowToggledUpstream ==
    /\ \E id \in DOMAIN workflows :
         workflows' = [workflows EXCEPT ![id].active = ~workflows[id].active]
    /\ last' = NoOp
    /\ UNCHANGED <<dataState, providerData,
                   users, credentials, wfState, actState, userState, credState>>

\* A workflow as some other configuration or a person left it on the remote.
SampleWorkflow(active) ==
    [name |-> "wf", active |-> active, nodes |-> JArr(<<"trigger">>),
     connections |-> JObj(<<>>), settings |-> Nil, tags |-> <<>>,
     createdAt |-> "t1", updatedAt |-> "t1"]

\* The activation resource manages workflows that exist before it does.
InitActivation ==
    /\ \E present \in SUBSET Ids :
         workflows \in [present -> {SampleWorkflow(b) : b \in BOOLEAN}]
    /\ users = EmptyRemote /\ credentials = EmptyRemote
    /\ wfState = Null /\ actState = Null /\ userState = Null /\ credState = Null
    /\ dataState = Null /\ providerData = Handed(SampleClient)
    /\ last = NoOp

NextActivation ==
    \/ ActivationCreate
    \/ ActivationRead
    \/ ActivationUpdate
    \/ ActivationDelete
    \/ ActivationImport
    \/ WorkflowRemovedUpstream
    \/ WorkflowToggledUpstream

SpecActivation == InitActivation /\ [][NextActivation]_vars

-----------------------------------------------------------------------------
(* n8n_workflow: tags *)

\* A field of a JSON object: absent, a string, or a value that is no string.
Absent == [p |-> "absent", v |-> ""]
S(x) == [p |-> "str", v |-> x]
NonStr == [p |-> "num", v |-> ""]

\* An element of a tags array: an object with id and name fields, or a scalar.
Tag(id, name) == [kind |-> "map", id |-> id, name |-> name]
Scalar == [kind |-> "scalar", id |-> Absent, name |-> Absent]

\* len(x) of a Go slice, nil included.
GoLen(x) == IF x.t = "nil" THEN 0 ELSE Len(x.c)

\* json.Unmarshal(text, &tags) with tags a []map[string]string: every element
\* must be an object whose values are strings.
UnmarshalTags(text) ==
    LET r == Unmarshal(text, "arr") IN
    IF r.err THEN r
    ELSE IF \E i \in 1..GoLen(r.val) :
                \/ r.val.c[i].kind # "map"
                \/ r.val.c[i].id.p = "num"
                \/ r.val.c[i].name.p = "num"
    THEN [err |-> TRUE, val |-> Nil]
    ELSE r

\* The conversion of the document's tags to []map[string]string: elements that
\* are no objects are skipped, fields that are no strings are left out.
StringFields(tag) ==
    Tag(IF tag.id.p = "str" THEN tag.id ELSE Absent,
        IF tag.name.p = "str" THEN tag.name ELSE Absent)

IsMap(e) == e.kind = "map"

RECURSIVE MapSeq(_, _)
MapSeq(seq, i) ==
    IF i > Len(seq) THEN <<>> ELSE <<StringFields(seq[i])>> \o MapSeq(seq, i + 1)

ExtractTags(tagsVal) ==
    IF tagsVal.t = "arr" THEN JArr(MapSeq(SelectSeq(tagsVal.c, IsMap), 1)) ELSE Nil

HasValidTagsMutant(tags) == TRUE

\* hasValidTags of CreateWorkflow and UpdateWorkflow: some tag has a non-empty id.
HasValidTags(tags) ==
    \E i \in 1..GoLen(tags) : tags.c[i].id.p = "str" /\ tags.c[i].id.v # ""

\* tag["id"] of a Go map: "" when the key is absent.
TagId(tag) == IF tag.id.p = "str" THEN tag.id.v ELSE ""

\* The payload of Client.UpdateWorkflowTags: the id of every tag given.
TagPayload(tags) == [i \in 1..GoLen(tags) |-> [id |-> TagId(tags.c[i])]]

\* The tags of a workflow as the remote lists them once assigned.
RemoteTags(payload) == [i \in 1..Len(payload) |-> Tag(S(payload[i].id), S("label"))]

-----------------------------------------------------------------------------
(* n8n_workflow: the client *)

\* createPayload / updatePayload: name, nodes and connections, and settings
\* only when there are any.  No other field is sent.
WorkflowPayloadMutant(w) ==
    IF w.settings.t # "nil"
    THEN [name |-> w.name, active |-> w.active, nodes |-> w.nodes,
          connections |-> w.connections, settings |-> w.settings]
    ELSE [name |-> w.name, active |-> w.active, nodes |-> w.nodes,
          connections |-> w.connections]

WorkflowPayload(w) ==
    IF w.settings.t # "nil"
    THEN [name |-> w.name, nodes |-> w.nodes, connections |-> w.connections,
          settings |-> w.settings]
    ELSE [name |-> w.name, nodes |-> w.nodes, connections |-> w.connections]

\* The workflow the remote keeps for a served create request.
Stored(payload) ==
    [name |-> payload.name, active |-> FALSE, nodes |-> payload.nodes,
     connections |-> payload.connections,
     settings |-> IF "settings" \in DOMAIN payload THEN payload.settings ELSE Nil,
     tags |-> <<>>, createdAt |-> "t1", updatedAt |-> "t1"]

\* Client.UpdateWorkflowTags.  The result is [err, calls, remote].
UpdateWorkflowTags(remote, id, tags, mood) ==
    LET payload == TagPayload(tags)
        err == doRequest(Answer(mood, id \in DOMAIN remote)) IN
    [err |-> err, calls |-> <<Call("PUT", "/api/v1/workflows/%s/tags", id, <<payload>>)>>,
     remote |-> IF err = NoErr THEN [remote EXCEPT ![id].tags = RemoteTags(payload)]
                ELSE remote]

\* What CreateWorkflow returns when the tag assignment failed, for the error
\* of the rollback (NoErr: the workflow was deleted again).
RollbackErrorMutant(tagErr, deleteErr) ==
    <<"failed to update workflow tags, workflow rolled back: ">> \o tagErr
      \o <<" (hint: tags must exist in n8n before assigning them to workflows)">>

RollbackError(tagErr, deleteErr) ==
    IF deleteErr # NoErr
    THEN <<"failed to update workflow tags: ">> \o tagErr
           \o <<" (also failed to clean up workflow: ">> \o deleteErr
           \o <<") - hint: tags must exist in n8n before assigning them to workflows">>
    ELSE <<"failed to update workflow tags, workflow rolled back: ">> \o tagErr
           \o <<" (hint: tags must exist in n8n before assigning them to workflows)">>

\* Client.CreateWorkflow.  a = [post, tags, delete]: the remote's dispositions
\* towards the create request, the tag assignment and the rollback.
\* The result is [err, calls, workflow, remote].
CreateWorkflowMutant(remote, workflow, a) ==
    LET payload == WorkflowPayload(workflow)
        post == Call("POST", "/api/v1/workflows", 0, <<payload>>)
        postErr == doRequest(Answer(a.post, TRUE))
        id == NewId(remote)
        created == With(remote, id, Stored(payload))
        result == ShowWorkflow(id, created[id])
        tagged == UpdateWorkflowTags(created, id, workflow.tags, a.tags)
    IN  IF postErr # NoErr
        THEN [err |-> postErr, calls |-> <<post>>, workflow |-> NoWorkflow, remote |-> remote]
        ELSE IF GoLen(workflow.tags) > 0 /\ HasValidTags(workflow.tags)
        THEN IF tagged.err # NoErr
             THEN [err |-> RollbackError(tagged.err, NoErr), calls |-> <<post>> \o tagged.calls,
                   workflow |-> NoWorkflow, remote |-> tagged.remote]
             ELSE [err |-> NoErr, calls |-> <<post>> \o tagged.calls,
                   workflow |-> [result EXCEPT !.tags = workflow.tags.c],
                   remote |-> tagged.remote]
        ELSE [err |-> NoErr, calls |-> <<post>>, workflow |-> result, remote |-> created]

CreateWorkflow(remote, workflow, a) ==
    LET payload == WorkflowPayload(workflow)
        post == Call("POST", "/api/v1/workflows", 0, <<payload>>)
        postErr == doRequest(Answer(a.post, TRUE))
        id == NewId(remote)
        created == With(remote, id, Stored(payload))
        result == ShowWorkflow(id, created[id])
        tagged == UpdateWorkflowTags(created, id, workflow.tags, a.tags)
        undone == DeleteWorkflow(tagged.remote, id, a.delete)
    IN  IF postErr # NoErr
        THEN [err |-> postErr, calls |-> <<post>>, workflow |-> NoWorkflow, remote |-> remote]
        ELSE IF GoLen(workflow.tags) > 0 /\ HasValidTags(workflow.tags)
        THEN IF tagged.err # NoErr
             THEN [err |-> RollbackError(tagged.err, undone.err),
                   calls |-> <<post>> \o tagged.calls \o undone.calls,
                   workflow |-> NoWorkflow, remote |-> undone.remote]
             ELSE [err |-> NoErr, calls |-> <<post>> \o tagged.calls,
                   workflow |-> [result EXCEPT !.tags = workflow.tags.c],
                   remote |-> tagged.remote]
        ELSE [err |-> NoErr, calls |-> <<post>>, workflow |-> result, remote |-> created]

\* The workflow the remote keeps for a served update request: the fields of
\* the payload replace the stored ones; the active flag and the tags stay.
Replaced(old, payload) ==
    [old EXCEPT !.name = payload.name, !.nodes = payload.nodes,
                !.connections = payload.connections,
                !.settings = IF "settings" \in DOMAIN payload THEN payload.settings ELSE Nil,
                !.updatedAt = "t2"]

\* Client.UpdateWorkflow.  a = [put, tags]: the remote's dispositions towards
\* the update request and the tag assignment.  There is no rollback.
\* The result is [err, calls, workflow, remote].
UpdateWorkflowMutant(remote, id, workflow, a) ==
    LET payload == WorkflowPayload(workflow)
        put == Call("PUT", "/api/v1/workflows/%s", id, <<payload>>)
        putErr == doRequest(Answer(a.put, id \in DOMAIN remote))
        updated == [remote EXCEPT ![id] = Replaced(remote[id], payload)]
        result == ShowWorkflow(id, updated[id])
    IN  IF putErr # NoErr
        THEN [err |-> putErr, calls |-> <<put, put>>, workflow |-> NoWorkflow, remote |-> remote]
        ELSE [err |-> NoErr, calls |-> <<put>>, workflow |-> result, remote |-> updated]

UpdateWorkflow(remote, id, workflow, a) ==
    LET payload == WorkflowPayload(workflow)
        put == Call("PUT", "/api/v1/workflows/%s", id, <<payload>>)
        putErr == doRequest(Answer(a.put, id \in DOMAIN remote))
        updated == [remote EXCEPT ![id] = Replaced(remote[id], payload)]
        result == ShowWorkflow(id, updated[id])
        tagged == UpdateWorkflowTags(updated, id, workflow.tags, a.tags)
    IN  IF putErr # NoErr
        THEN [err |-> putErr, calls |-> <<put>>, workflow |-> NoWorkflow, remote |-> remote]
        ELSE IF GoLen(workflow.tags) > 0 /\ HasValidTags(workflow.tags)
        THEN IF tagged.err # NoErr
             THEN [err |-> <<"failed to update workflow tags: ">> \o tagged.err
                             \o <<" (hint: tags must exist in n8n before assigning them to workflows)">>,
                   calls |-> <<put>> \o tagged.calls,
                   workflow |-> NoWorkflow, remote |-> tagged.remote]
             ELSE [err |-> NoErr, calls |-> <<put>> \o tagged.calls,
                   workflow |-> [result EXCEPT !.tags = workflow.tags.c],
                   remote |-> tagged.remote]
        ELSE [err |-> NoErr, calls |-> <<put>>, workflow |-> result, remote |-> updated]

-----------------------------------------------------------------------------
(* n8n_workflow: the resource *)

\* The object a workflow_json text encodes.
JDoc(doc) == JObj(<<doc>>)

\* What the handler works with after reading the plan: the fields of the
\* client.Workflow it builds, the plan as updated, and the diagnostics.
Parsed(diags, plan, name, active, nodes, connections, settings, tags) ==
    [diags |-> diags, plan |-> plan, name |-> name, active |-> active, nodes |-> nodes,
     connections |-> connections, settings |-> settings, tags |-> tags]

ParseFailed(summary, detail, plan) ==
    Parsed(<<Error(summary, <<detail>>)>>, plan, "", FALSE, Nil, Nil, Nil, Nil)

\* The workflow_json branch of Create and Update: the fields are taken from
\* the document and written over the plan's attributes; settings and tags
\* are written only when the document has them.
FromWorkflowJSON(plan) ==
    LET r == Unmarshal(ValueText(plan.workflow_json), "obj")
        d == r.val.c[1]
        name == d.name.c[1]
        active == IF d.active.t = "bool" THEN d.active.c[1] ELSE FALSE
        settings == IF d.settings.t = "obj" THEN d.settings ELSE Nil
        tags == ExtractTags(d.tags)
        p1 == [plan EXCEPT !.name = Val(name), !.nodes = Val(Marshal(d.nodes)),
                           !.connections = Val(Marshal(d.connections))]
        p2 == IF settings.t # "nil" THEN [p1 EXCEPT !.settings = Val(Marshal(settings))] ELSE p1
        p3 == IF tags.t # "nil" THEN [p2 EXCEPT !.tags = Val(Marshal(tags))] ELSE p2
    IN  IF r.err
        THEN ParseFailed("Error parsing workflow_json", "Could not parse workflow_json", plan)
        ELSE IF r.val.t = "nil" \/ d.name.t # "str"
        THEN ParseFailed("Missing required field", "workflow_json must contain a 'name' field", plan)
        ELSE IF d.nodes.t # "arr"
        THEN ParseFailed("Missing required field", "workflow_json must contain a 'nodes' array", plan)
        ELSE IF d.connections.t # "obj"
        THEN ParseFailed("Missing required field",
                         "workflow_json must contain a 'connections' object", plan)
        ELSE Parsed(<<>>, p3, name, active, d.nodes, d.connections, settings, tags)

\* The individual-attribute branch.  Create insists on name, nodes and
\* connections not being null (checkNull); Update does not.
FromAttributes(plan, checkNull) ==
    LET nodes == Unmarshal(ValueText(plan.nodes), "arr")
        connections == Unmarshal(ValueText(plan.connections), "obj")
        hasSettings == ~IsNull(plan.settings) /\ ValueText(plan.settings) # EmptyTxt
        settings == IF hasSettings THEN Unmarshal(ValueText(plan.settings), "obj")
                    ELSE [err |-> FALSE, val |-> Nil]
        hasTags == ~IsNull(plan.tags) /\ ValueText(plan.tags) # EmptyTxt
        tags == IF hasTags THEN UnmarshalTags(ValueText(plan.tags))
                ELSE [err |-> FALSE, val |-> Nil]
    IN  IF checkNull /\ (IsNull(plan.name) \/ IsNull(plan.nodes) \/ IsNull(plan.connections))
        THEN ParseFailed("Missing required attributes",
                         "Either workflow_json or all of (name, nodes, connections) must be provided",
                         plan)
        ELSE IF nodes.err
        THEN ParseFailed("Error parsing nodes JSON", "Could not parse nodes JSON", plan)
        ELSE IF connections.err
        THEN ParseFailed("Error parsing connections JSON", "Could not parse connections JSON", plan)
        ELSE IF settings.err
        THEN ParseFailed("Error parsing settings JSON", "Could not parse settings JSON", plan)
        ELSE IF tags.err
        THEN ParseFailed("Error parsing tags JSON", "Could not parse tags JSON", plan)
        ELSE Parsed(<<>>, plan, ValueString(plan.name), FALSE, nodes.val, connections.val,
                    settings.val, tags.val)

\* Which branch a plan takes: workflow_json when it is set and not empty.
UsesWorkflowJSON(plan) ==
    ~IsNull(plan.workflow_json) /\ ValueText(plan.workflow_json) # EmptyTxt

ParsePlan(plan, checkNull) ==
    IF UsesWorkflowJSON(plan) THEN FromWorkflowJSON(plan) ELSE FromAttributes(plan, checkNull)

\* "Ensure tags is set" of Create: a tags attribute that is still null or
\* unknown is filled from the created workflow, or with the empty array.
EnsureTags(plan, workflow) ==
    IF IsNull(plan.tags) \/ IsUnknown(plan.tags)
    THEN IF Len(workflow.tags) > 0
         THEN [plan EXCEPT !.tags = Val(Marshal(JArr(workflow.tags)))]
         ELSE [plan EXCEPT !.tags = Val(Marshal(JArr(<<>>)))]
    ELSE plan

\* workflowResource.Create
workflowResourceCreate(remote, plan, a) ==
    LET p == ParsePlan(plan, TRUE)
        workflow == [name |-> p.name, active |-> p.active, nodes |-> p.nodes,
                     connections |-> p.connections, settings |-> p.settings, tags |-> p.tags]
        r == CreateWorkflow(remote, workflow, a)
        filled == [p.plan EXCEPT !.id = Val(r.workflow.id),
                                 !.created_at = Val(r.workflow.createdAt),
                                 !.updated_at = Val(r.workflow.updatedAt)]
    IN  IF HasError(p.diags) THEN Result(Null, remote, <<>>, p.diags)
        ELSE IF r.err # NoErr
        THEN Result(Null, r.remote, r.calls, <<Error("Error creating workflow",
                          <<"Could not create workflow, unexpected error: ">> \o r.err)>>)
        ELSE Result(EnsureTags(filled, r.workflow), r.remote, r.calls, <<>>)

\* workflowResource.Read
workflowResourceRead(remote, state, mood) ==
    LET id == IdOf(state)
        got == GetWorkflow(remote, id, mood)
        w == got.workflow
        s1 == [state EXCEPT !.name = Val(w.name), !.created_at = Val(w.createdAt),
                            !.updated_at = Val(w.updatedAt), !.nodes = Val(Marshal(w.nodes)),
                            !.connections = Val(Marshal(w.connections))]
        s2 == IF w.settings.t # "nil" THEN [s1 EXCEPT !.settings = Val(Marshal(w.settings))]
              ELSE s1
        s3 == IF Len(w.tags) > 0 THEN [s2 EXCEPT !.tags = Val(Marshal(JArr(w.tags)))]
              ELSE [s2 EXCEPT !.tags = Val(Marshal(JArr(<<>>)))]
    IN  IF got.err # NoErr
        THEN IF Is404(got.err)
             THEN Result(Null, remote, got.calls, <<>>)
             ELSE Result(state, remote, got.calls,
                         <<Error("Error Reading n8n Workflow",
                                 <<"Could not read n8n workflow ID ", id, ": ">> \o got.err)>>)
        ELSE Result(s3, remote, got.calls, <<>>)

\* workflowResource.Update
workflowResourceUpdate(remote, plan, prior, a) ==
    LET p == ParsePlan(plan, FALSE)
        workflow == [name |-> p.name, active |-> p.active, nodes |-> p.nodes,
                     connections |-> p.connections, settings |-> p.settings, tags |-> p.tags]
        r == UpdateWorkflow(remote, IdOf(plan), workflow, a)
        filled == [p.plan EXCEPT !.created_at = Val(r.workflow.createdAt),
                                 !.updated_at = Val(r.workflow.updatedAt),
                                 !.tags = IF Len(r.workflow.tags) > 0
                                          THEN Val(Marshal(JArr(r.workflow.tags)))
                                          ELSE Val(Marshal(JArr(<<>>)))]
    IN  IF HasError(p.diags) THEN Result(prior, remote, <<>>, p.diags)
        ELSE IF r.err # NoErr
        THEN Result(prior, r.remote, r.calls, <<Error("Error Updating n8n Workflow",
                          <<"Could not update workflow, unexpected error: ">> \o r.err)>>)
        ELSE Result(filled, r.remote, r.calls, <<>>)

workflowResourceDeleteMutant(remote, prior, mood) ==
    LET r == DeleteWorkflow(remote, IdOf(prior), mood)
        diags == IF r.err # NoErr /\ ~Is404(r.err)
                 THEN <<Error("Error Deleting n8n Workflow",
                              <<"Could not delete workflow, unexpected error: ">> \o r.err)>>
                 ELSE <<>>
        o == DeleteOutcome(prior, r.calls, diags)
    IN  Result(o.state, r.remote, o.calls, o.diags)

\* workflowResource.Delete
workflowResourceDelete(remote, prior, mood) ==
    LET r == DeleteWorkflow(remote, IdOf(prior), mood)
        diags == IF r.err # NoErr
                 THEN <<Error("Error Deleting n8n Workflow",
                              <<"Could not delete workflow, unexpected error: ">> \o r.err)>>
                 ELSE <<>>
        o == DeleteOutcome(prior, r.calls, diags)
    IN  Result(o.state, r.remote, o.calls, o.diags)

-----------------------------------------------------------------------------
(* n8n_workflow: configurations and actions *)

\* Tag lists a configuration may carry: none, one assignable tag, a tag with
\* an empty id, tags without id mixed with an assignable one, and entries
\* that are no string maps at all.
TagSamples ==
    { <<>>,
      <<Tag(S("t1"), S("x"))>>,
      <<Tag(S(""), S("x"))>>,
      <<Tag(Absent, S("x")), Tag(S("t2"), Absent)>>,
      <<Scalar, Tag(NonStr, S("x"))>> }

Doc(name, active, nodes, connections, settings, tags) ==
    [name |-> name, active |-> active, nodes |-> nodes, connections |-> connections,
     settings |-> settings, tags |-> tags]

DocNodes == JArr(<<"n1">>)
DocConnections == JObj(<<"c1">>)
DocSettings == JObj(<<"s1">>)

\* Workflow documents: complete ones in every combination of settings and
\* tags, some with another or no active flag, and some lacking a required field.
Docs ==
    {Doc(JStr("doc"), JBool(TRUE), DocNodes, DocConnections, st, tg) :
        st \in {DocSettings, Missing}, tg \in {Missing} \cup {JArr(t) : t \in TagSamples}}
    \cup {Doc(JStr("doc"), a, DocNodes, DocConnections, Missing, Missing) :
            a \in {JBool(FALSE), Missing}}
    \cup {Doc(Missing, JBool(TRUE), DocNodes, DocConnections, Missing, Missing),
          Doc(JStr("doc"), JBool(TRUE), JNull, DocConnections, Missing, Missing),
          Doc(JStr("doc"), JBool(TRUE), DocNodes, JArr(<<>>), Missing, Missing)}

\* The documents that are also given together with individual attributes.
ConflictDocs ==
    {Doc(JStr("doc"), JBool(TRUE), DocNodes, DocConnections, st, tg) :
        st \in {DocSettings, Missing}, tg \in {Missing, JArr(<<Tag(S("t1"), S("x"))>>)}}

WorkflowPlan(name, json, nodes, connections, settings, tags) ==
    [id |-> Unknown, name |-> name, workflow_json |-> json, nodes |-> nodes,
     connections |-> connections, settings |-> settings, tags |-> tags,
     created_at |-> Unknown, updated_at |-> Unknown]

AttrNodes == Val(Json(JArr(<<"n2">>), "pretty"))
AttrConnections == Val(Json(JObj(<<"c2">>), "pretty"))
AttrSettings == Val(Json(JObj(<<"s2">>), "pretty"))
AttrTags == Val(Json(JArr(<<Tag(S("t3"), S("y"))>>), "pretty"))

\* Plans with workflow_json: alone (the optional computed attributes are
\* unknown in the plan), or with every individual attribute configured too.
JSONPlans ==
    {WorkflowPlan(Unknown, Val(Json(JDoc(d), "pretty")), Unknown, Unknown, Unknown, Unknown) :
        d \in Docs}
    \cup {WorkflowPlan(Val("ind"), Val(Json(JDoc(d), "pretty")), AttrNodes, AttrConnections,
                       AttrSettings, AttrTags) : d \in ConflictDocs}
    \cup {WorkflowPlan(Unknown, Val(BadTxt), Unknown, Unknown, Unknown, Unknown)}

\* Plans with individual attributes: well-formed ones in every combination of
\* settings and tags, and ones with a required attribute absent or malformed,
\* or with workflow_json or tags configured as the empty string.
AttributePlans ==
    {WorkflowPlan(Val("ind"), Null, AttrNodes, AttrConnections, st, tg) :
        st \in {Unknown, AttrSettings},
        tg \in {Unknown} \cup {Val(Json(JArr(t), "pretty")) : t \in TagSamples}}
    \cup {WorkflowPlan(Val("ind"), Null, AttrNodes, AttrConnections, Val(BadTxt), Unknown),
          WorkflowPlan(Val("ind"), Null, AttrNodes, AttrConnections, Unknown, Val(BadTxt)),
          WorkflowPlan(Val("ind"), Val(EmptyTxt), AttrNodes, AttrConnections, Unknown, Unknown),
          WorkflowPlan(Val("ind"), Null, AttrNodes, AttrConnections, Unknown, Val(EmptyTxt)),
          WorkflowPlan(Unknown, Null, AttrNodes, AttrConnections, Unknown, Unknown),
          WorkflowPlan(Val("ind"), Null, Unknown, AttrConnections, Unknown, Unknown),
          WorkflowPlan(Val("ind"), Null, Val(BadTxt), AttrConnections, Unknown, Unknown),
          WorkflowPlan(Val("ind"), Null, AttrNodes, Unknown, Unknown, Unknown)}

WorkflowPlans == JSONPlans \cup AttributePlans

\* The configurations of the specification with updates: a document with an
\* assignable tag and one without tags, both asking for an active workflow;
\* individual attributes with and without assignable tags; and individual
\* attributes with a required one absent or with one malformed.
UpdateDocs ==
    {Doc(JStr("doc"), JBool(TRUE), DocNodes, DocConnections, Missing, tg) :
        tg \in {Missing, JArr(<<Tag(S("t1"), S("x"))>>)}}

UpdatePlans ==
    {WorkflowPlan(Unknown, Val(Json(JDoc(d), "pretty")), Unknown, Unknown, Unknown, Unknown) :
        d \in UpdateDocs}
    \cup {WorkflowPlan(Val("ind"), Null, AttrNodes, AttrConnections, Unknown, tg) :
            tg \in {Val(Json(JArr(<<Tag(S(""), S("x"))>>), "pretty")),
                    Val(Json(JArr(<<Tag(Absent, S("x")), Tag(S("t2"), Absent)>>), "pretty")),
                    Val(BadTxt)}}
    \cup {WorkflowPlan(Unknown, Null, AttrNodes, AttrConnections, Unknown, Unknown),
          WorkflowPlan(Val("ind"), Null, Unknown, AttrConnections, Unknown, Unknown),
          WorkflowPlan(Val("ind"), Null, AttrNodes, Unknown, Unknown, Unknown),
          WorkflowPlan(Val("ind"), Null, Val(BadTxt), AttrConnections, Unknown, Unknown),
          WorkflowPlan(Val("ind"), Null, AttrNodes, Val(BadTxt), Unknown, Unknown),
          WorkflowPlan(Val("ind"), Null, AttrNodes, AttrConnections, Val(BadTxt), Unknown)}

WorkflowCreateOf(plans) ==
    /\ wfState = Null
    /\ Ids \ DOMAIN workflows # {}
    /\ Cardinality(DOMAIN workflows) < MaxWorkflows
    /\ \E plan \in plans, post \in WriteMoods, tags \in WriteMoods,
          delete \in WriteMoods :
         \* dispositions the operation never gets to see are fixed
         /\ Refuses(post) => tags = Serve
         /\ ~Refuses(tags) => delete = Serve
         /\ \E o \in {workflowResourceCreate(workflows, plan,
                                            [post |-> post, tags |-> tags, delete |-> delete])} :
             /\ Len(o.calls) < 1 => post = Serve
             /\ Len(o.calls) < 2 => tags = Serve
             /\ Len(o.calls) < 3 => delete = Serve
             /\ wfState' = o.state
             /\ workflows' = o.remote
             /\ last' = Op("WorkflowCreate", plan, Null, o.calls, o.diags,
                           [id |-> NewId(workflows), post |-> Answer(post, TRUE),
                            tags |-> Answer(tags, TRUE), delete |-> Answer(delete, TRUE)])
    /\ UNCHANGED <<dataState, providerData, users, credentials, actState, userState, credState>>

WorkflowCreate == WorkflowCreateOf(WorkflowPlans)

WorkflowCreateForUpdate == WorkflowCreateOf(UpdatePlans)

WorkflowRead ==
    /\ wfState # Null
    /\ \E get \in Moods :
         \E o \in {workflowResourceRead(workflows, wfState, get)} :
         /\ wfState' = o.state
         /\ workflows' = o.remote
         /\ last' = Op("WorkflowRead", Null, wfState, o.calls, o.diags,
                       [get |-> Answer(get, IdOf(wfState) \in DOMAIN workflows)])
    /\ UNCHANGED <<dataState, providerData, users, credentials, actState, userState, credState>>

WorkflowDelete ==
    /\ wfState # Null
    /\ \E mood \in WriteMoods :
         \E o \in {workflowResourceDelete(workflows, wfState, mood)} :
         /\ wfState' = o.state
         /\ workflows' = o.remote
         /\ last' = Op("WorkflowDelete", Null, wfState, o.calls, o.diags,
                       [delete |-> Answer(mood, IdOf(wfState) \in DOMAIN workflows)])
    /\ UNCHANGED <<dataState, providerData, users, credentials, actState, userState, credState>>

\* The id of an update's plan is the one of the prior state.
WorkflowUpdate ==
    /\ wfState # Null
    /\ \E config \in UpdatePlans, put \in WriteMoods, tags \in WriteMoods :
         /\ Refuses(put) => tags = Serve
         /\ \E plan \in {[config EXCEPT !.id = wfState.id]} :
            \E o \in {workflowResourceUpdate(workflows, plan, wfState,
                                             [put |-> put, tags |-> tags])} :
             /\ Len(o.calls) < 1 => put = Serve
             /\ Len(o.calls) < 2 => tags = Serve
             /\ wfState' = o.state
             /\ workflows' = o.remote
             /\ last' = Op("WorkflowUpdate", plan, wfState, o.calls, o.diags,
                           [put |-> Answer(put, IdOf(wfState) \in DOMAIN workflows),
                            tags |-> Answer(tags, IdOf(wfState) \in DOMAIN workflows)])
    /\ UNCHANGED <<dataState, providerData, users, credentials, actState, userState, credState>>

\* workflowResource.ImportState: the import id becomes the id attribute.
WorkflowImport ==
    /\ wfState = Null
    /\ \E id \in Ids :
         /\ wfState' = [id |-> Val(id), name |-> Null, workflow_json |-> Null, nodes |-> Null,
                        connections |-> Null, settings |-> Null, tags |-> Null,
                        created_at |-> Null, updated_at |-> Null]
         /\ last' = Op("WorkflowImport", Null, Null, <<>>, <<>>, NoEnv)
    /\ UNCHANGED <<dataState, providerData,
                   workflows, users, credentials, actState, userState, credState>>

InitWorkflow == InitCredential

NextWorkflow ==
    \/ WorkflowCreate
    \/ WorkflowRead
    \/ WorkflowDelete
    \/ WorkflowImport
    \/ WorkflowRemovedUpstream

SpecWorkflow == InitWorkflow /\ [][NextWorkflow]_vars

\* Credentials and workflows side by side, created, deleted and removed
\* upstream.
NextDelete ==
    \/ CredentialCreate
    \/ CredentialDelete
    \/ CredentialRemovedUpstream
    \/ WorkflowCreateForUpdate
    \/ WorkflowDelete
    \/ WorkflowRemovedUpstream

SpecDelete == InitWorkflow /\ [][NextDelete]_vars

\* The workflow resource with updates, over the configurations of UpdatePlans.
NextWorkflowUpdate ==
    \/ WorkflowCreateForUpdate
    \/ WorkflowRead
    \/ WorkflowUpdate
    \/ WorkflowDelete
    \/ WorkflowRemovedUpstream

SpecWorkflowUpdate == InitWorkflow /\ [][NextWorkflowUpdate]_vars

-----------------------------------------------------------------------------
(* C1: every credential Read sends no request to the remote and leaves the *)
(* stored state (id, name, type, data) exactly as it was before the Read.  *)
C1_CredentialReadIsLocal ==
    last.op = "CredentialRead" =>
        /\ last.calls = <<>>
        /\ credState = last.prior
        /\ ~HasError(last.diags)

\* A Read of a stored credential whose remote copy is gone, so that a refresh
\* from the remote could not have produced the state.
C1_Witness ==
    /\ last.op = "CredentialRead"
    /\ credState # Null
    /\ credState.name # Null
    /\ CredIdOf(credState) \notin DOMAIN credentials

-----------------------------------------------------------------------------
\* The document given as workflow_json to the last workflow Create.
SuppliedDoc == last.plan.workflow_json.v.val.c[1]

\* The last operation was a workflow Create from a workflow_json document
\* that ended without error.
CreatedFromJSON ==
    /\ last.op = "WorkflowCreate"
    /\ UsesWorkflowJSON(last.plan)
    /\ ~HasError(last.diags)

(* C2: after every successful workflow Create with workflow_json supplied, *)
(* the name, nodes, connections, settings and tags stored in state are the *)
(* ones of the document (settings and tags hold none when the document has *)
(* none), also when individual attributes were configured beside it.       *)
C2_StateFromDocument ==
    CreatedFromJSON =>
        LET d == SuppliedDoc IN
        /\ wfState # Null
        /\ wfState.name = Val(d.name.c[1])
        /\ wfState.nodes = Val(Json(d.nodes, "compact"))
        /\ wfState.connections = Val(Json(d.connections, "compact"))
        /\ IF d.settings.t = "obj"
           THEN wfState.settings = Val(Json(d.settings, "compact"))
           ELSE wfState.settings.k # "val"
        /\ IF d.tags.t = "arr"
           THEN wfState.tags = Val(Json(ExtractTags(d.tags), "compact"))
           ELSE wfState.tags \in {Null, Unknown, Val(Json(JArr(<<>>), "compact"))}

-----------------------------------------------------------------------------
\* The last operation was a workflow Create that sent the tag assignment
\* (so its tags had a non-empty id) and the assignment failed.
TagAssignmentFailed ==
    /\ last.op = "WorkflowCreate"
    /\ Len(last.calls) >= 2
    /\ last.calls[2].m = "PUT"
    /\ Failed(last.env.tags)

(* C3 as stated: when the tag assignment of a workflow Create fails, the   *)
(* workflow created by the operation is gone from the remote afterwards    *)
(* and no state is stored.                                                 *)
C3_RolledBack ==
    TagAssignmentFailed =>
        /\ last.env.id \notin DOMAIN workflows
        /\ wfState = Null

(* C3 amended: when the tag assignment of a workflow Create fails, Create  *)
(* sends one DELETE for the workflow it created, returns an error and      *)
(* stores no state; the workflow is gone from the remote exactly when that *)
(* DELETE succeeded.                                                       *)
C3_RollbackAttempted ==
    TagAssignmentFailed =>
        /\ wfState = Null
        /\ HasError(last.diags)
        /\ Len(last.calls) = 3
        /\ last.calls[3] = Call("DELETE", "/api/v1/workflows/%s", last.env.id, <<>>)
        /\ last.env.id \notin DOMAIN workflows <=> ~Failed(last.env.delete)

\* A Create whose tag assignment failed and whose rollback went through.
C3_Witness ==
    /\ TagAssignmentFailed
    /\ ~Failed(last.env.delete)
    /\ last.env.id \notin DOMAIN workflows

-----------------------------------------------------------------------------
\* The role the last user Create or Update was asked for.
RequestedRole == ValueString(last.plan.role)

\* The last operation was a user Create or Update that ran to its follow-up
\* read with success (state was stored from the user read back).
UserWritten ==
    /\ last.op \in {"UserCreate", "UserUpdate"}
    /\ ~HasError(last.diags)

(* C4: after a user Create or Update that requested a non-empty role, the  *)
(* role stored in state is never empty; when the follow-up read carried no *)
(* role (neither role nor globalRole, env.show = "none") it equals the     *)
(* requested role.                                                         *)
C4_RequestedRoleKept ==
    (UserWritten /\ RequestedRole # "") =>
        /\ userState # Null
        /\ ValueString(userState.role) # ""
        /\ last.env.show = "none" => userState.role = Val(RequestedRole)

\* An Update to the admin role, from another one, whose follow-up read
\* showed no role.
C4_Witness ==
    /\ UserWritten /\ RequestedRole = "global:admin"
    /\ last.env.show = "none"
    /\ last.op = "UserUpdate"
    /\ last.prior.role # Val("global:admin")

(* C5: a user Delete whose remote DELETE call fails raises no error        *)
(* diagnostic, emits a warning, and the local state is removed.            *)
C5_UserDeleteTolerant ==
    (last.op = "UserDelete" /\ Failed(last.env.delete)) =>
        /\ ~HasError(last.diags)
        /\ HasWarning(last.diags)
        /\ userState = Null

\* A Delete that failed on the remote while the user still exists there.
C5_Witness ==
    /\ last.op = "UserDelete" /\ Failed(last.env.delete)
    /\ IdOf(last.prior) \in DOMAIN users

-----------------------------------------------------------------------------
(* C6: a workflow Read that the remote answers with status 404 removes the *)
(* workflow from state and raises no diagnostic.                           *)
C6_ReadNotFoundRemovesState ==
    (last.op = "WorkflowRead" /\ last.env.get.status = 404) =>
        /\ wfState = Null
        /\ last.diags = <<>>

\* A Read of a workflow that was created by this resource and then deleted
\* on the remote.
C6_Witness ==
    /\ last.op = "WorkflowRead"
    /\ last.env.get.status = 404
    /\ last.prior.name # Null
    /\ wfState = Null

(* C7: a workflow Read that fails otherwise than by a 404 status (a 500    *)
(* with any body, a transport failure with any message) raises an error    *)
(* that names the workflow id and keeps the state; the state is removed    *)
(* only when the remote's status was 404.                                  *)
C7_OtherFailuresKeepState ==
    last.op = "WorkflowRead" =>
        /\ (Failed(last.env.get) /\ last.env.get.status # 404) =>
              /\ HasError(last.diags)
              /\ last.diags[1].detail[2] = IdOf(last.prior)
              /\ wfState = last.prior
        /\ wfState = Null => last.env.get.status = 404

-----------------------------------------------------------------------------
\* The transition calls (activate, deactivate) among the calls of the last
\* operation.
IsTransitionCall(c) ==
    c.p \in {"/api/v1/workflows/%s/activate", "/api/v1/workflows/%s/deactivate"}

TransitionCalls == SelectSeq(last.calls, IsTransitionCall)

(* C8: an activation Create on a workflow id that does not exist on the    *)
(* remote ends with an error, persists no state and issues no activate or  *)
(* deactivate call; when the remote reports the absence (404) the error is *)
(* the not-found error.                                                    *)
C8_CreateOnMissingWorkflow ==
    (last.op = "ActivationCreate" /\ ~last.env.exists) =>
        /\ HasError(last.diags)
        /\ actState = Null
        /\ TransitionCalls = <<>>
        /\ last.env.get.status = 404 =>
              (Len(last.diags) = 1 /\ last.diags[1].summary = "Workflow Not Found")

\* A Create, planned active, on a missing workflow that the remote reported
\* as 404.
C8_Witness ==
    /\ last.op = "ActivationCreate" /\ ~last.env.exists
    /\ last.env.get.status = 404
    /\ ValueBool(last.plan.active)

(* C9: an activation Create whose read of the workflow succeeds sends the  *)
(* read first; when the planned active value differs from the flag read it *)
(* sends exactly one transition call next (activate when planned true,     *)
(* deactivate when false) and nothing else; when they are equal it sends   *)
(* no transition call and persists the state.                              *)
C9_CreateSingleTransition ==
    (last.op = "ActivationCreate" /\ ~Failed(last.env.get)) =>
        LET id == last.plan.workflow_id.v
            planned == ValueBool(last.plan.active)
        IN  /\ last.calls[1] = Call("GET", "/api/v1/workflows/%s", id, <<>>)
            /\ planned # last.env.active =>
                 /\ Len(last.calls) = 2
                 /\ last.calls[2] =
                      Call("POST", IF planned THEN "/api/v1/workflows/%s/activate"
                                   ELSE "/api/v1/workflows/%s/deactivate", id, <<>>)
                 /\ ~Failed(last.env.switch) =>
                      actState = ActivationModel(Val(id), Val(id), Val(planned))
            /\ planned = last.env.active =>
                 /\ Len(last.calls) = 1
                 /\ ~HasError(last.diags)
                 /\ actState = ActivationModel(Val(id), Val(id), Val(planned))

\* A Create, planned inactive, that found the workflow active, deactivated it
\* and stored the state.
C9_Witness ==
    /\ last.op = "ActivationCreate" /\ ~Failed(last.env.get)
    /\ ~ValueBool(last.plan.active) /\ last.env.active
    /\ Len(last.calls) = 2 /\ actState # Null

(* C10: after every activation Delete that returned without error, the     *)
(* workflow, if it still exists on the remote, is inactive, and the local  *)
(* activation state is removed.                                            *)
C10_DeleteLeavesInactive ==
    (last.op = "ActivationDelete" /\ ~HasError(last.diags)) =>
        LET id == last.prior.workflow_id.v
        IN  /\ actState = Null
            /\ id \in DOMAIN workflows => ~workflows[id].active

-----------------------------------------------------------------------------
(* C11: an activation Read that the remote answers with status 404 removes *)
(* the activation from state and raises no diagnostic; a Read that finds   *)
(* the workflow stores the remote's active flag and changes nothing else.  *)
C11_ActivationReadFollowsRemote ==
    last.op = "ActivationRead" =>
        /\ last.env.get.status = 404 =>
              /\ actState = Null
              /\ last.diags = <<>>
        /\ ~Failed(last.env.get) =>
              /\ actState = [last.prior EXCEPT !.active = Val(last.env.active)]
              /\ last.diags = <<>>

\* A Read that found the workflow with another active flag than the stored
\* one (it was switched in the n8n editor).
C11_Witness ==
    /\ last.op = "ActivationRead"
    /\ ~Failed(last.env.get)
    /\ last.prior.active \in {Val(TRUE), Val(FALSE)}
    /\ last.prior.active # Val(last.env.active)

-----------------------------------------------------------------------------
(* C12: every Read of the credential data source, whatever the credential  *)
(* id and whether or not the credential exists, sends no request, sets no   *)
(* state and ends with an error that quotes the id.                        *)
C12_CredentialDataSourceFails ==
    last.op = "CredentialDataRead" =>
        /\ last.calls = <<>>
        /\ dataState = Null
        /\ HasError(last.diags)
        /\ last.diags[1].detail[Len(last.diags[1].detail)] = CredIdOf(last.plan)

\* A Read for a credential that exists on the remote.
C12_Witness ==
    /\ last.op = "CredentialDataRead"
    /\ last.env.exists

-----------------------------------------------------------------------------
\* What an attribute of the provider block and its environment variable
\* resolve to: the configured value when one is given, else the variable.
ResolvedEndpoint ==
    IF last.plan.endpoint.k = "val" THEN last.plan.endpoint.v ELSE last.env.N8N_ENDPOINT

ResolvedAPIKey ==
    IF last.plan.api_key.k = "val" THEN last.plan.api_key.v ELSE last.env.N8N_API_KEY

\* The last operation configured the provider from known values.
ConfiguredFromKnown ==
    /\ last.op = "ProviderConfigure"
    /\ ~IsUnknown(last.plan.endpoint)
    /\ ~IsUnknown(last.plan.api_key)

(* C13: the provider's Configure takes endpoint and API key from the       *)
(* configuration when given and from N8N_ENDPOINT / N8N_API_KEY otherwise; *)
(* when both resolve to something it hands out a client for them, and when *)
(* one resolves to empty it raises an error on that attribute and hands    *)
(* out no client.                                                          *)
C13_ConfigureResolution ==
    ConfiguredFromKnown =>
        LET c == providerData.ResourceData IN
        /\ providerData.DataSourceData = c
        /\ (ResolvedEndpoint # <<>> /\ ResolvedAPIKey # "") =>
              /\ last.diags = <<>>
              /\ c.set
              /\ c.APIKey = ResolvedAPIKey
              /\ c.BaseURL = ResolvedEndpoint \/ c.BaseURL \o <<"/">> = ResolvedEndpoint
        /\ (ResolvedEndpoint = <<>> \/ ResolvedAPIKey = "") =>
              /\ HasError(last.diags)
              /\ ~c.set
        /\ ResolvedEndpoint = <<>> <=>
              \E i \in 1..Len(last.diags) : last.diags[i].path = "endpoint"
        /\ ResolvedAPIKey = "" <=>
              \E i \in 1..Len(last.diags) : last.diags[i].path = "api_key"

\* Endpoint given in the configuration and in the environment, the key in
\* the environment only: a client for the configured endpoint is handed out.
C13_Witness ==
    /\ ConfiguredFromKnown
    /\ last.plan.endpoint.k = "val" /\ last.plan.endpoint.v # <<>>
    /\ last.env.N8N_ENDPOINT # <<>>
    /\ IsNull(last.plan.api_key) /\ last.env.N8N_API_KEY # ""
    /\ providerData.ResourceData.set

-----------------------------------------------------------------------------
(* Workflow Create and Update: what is sent *)

\* The last operation was a workflow Create or a workflow Update.
WorkflowWritten == last.op \in {"WorkflowCreate", "WorkflowUpdate"}

\* The requests of the last operation that create or replace a workflow.
IsBaseCall(c) ==
    \/ c.m = "POST" /\ c.p = "/api/v1/workflows"
    \/ c.m = "PUT" /\ c.p = "/api/v1/workflows/%s"

IsTagCall(c) == c.m = "PUT" /\ c.p = "/api/v1/workflows/%s/tags"

(* C14: a workflow Create or Update never applies the active flag of the   *)
(* document: no request that creates or replaces the workflow carries an   *)
(* active field, the operation issues no activate or deactivate call, and  *)
(* no workflow on the remote is active afterwards.                         *)
C14_ActiveNeverApplied ==
    WorkflowWritten =>
        /\ \A i \in 1..Len(last.calls) :
              IsBaseCall(last.calls[i]) => "active" \notin DOMAIN last.calls[i].body[1]
        /\ TransitionCalls = <<>>
        /\ \A id \in DOMAIN workflows : ~workflows[id].active

\* An Update from a document that asks for an active workflow went through.
C14_Witness ==
    /\ last.op = "WorkflowUpdate"
    /\ UsesWorkflowJSON(last.plan)
    /\ SuppliedDoc.active = JBool(TRUE)
    /\ ~HasError(last.diags)
    /\ Len(last.calls) >= 1
    /\ IsBaseCall(last.calls[1])
    /\ wfState # Null

-----------------------------------------------------------------------------
(* Workflow Create and Update: individual attributes *)

\* The last operation was a Create or Update in individual-attribute mode.
AttributeMode == WorkflowWritten /\ ~UsesWorkflowJSON(last.plan)

IsMissing(attr) == IsNull(attr) \/ IsUnknown(attr)

Malformed(attr) == attr = Val(BadTxt)

\* The attributes of the last plan that are required but missing, or malformed.
BadAttributes ==
    {f \in {"name", "nodes", "connections"} : IsMissing(last.plan[f])}
    \cup {f \in {"nodes", "connections", "settings", "tags"} : Malformed(last.plan[f])}

\* The error summaries that name an attribute.
Naming(f) ==
    CASE f = "name" -> {"Missing required attributes"}
      [] f = "nodes" -> {"Missing required attributes", "Error parsing nodes JSON"}
      [] f = "connections" -> {"Missing required attributes", "Error parsing connections JSON"}
      [] f = "settings" -> {"Error parsing settings JSON"}
      [] f = "tags" -> {"Error parsing tags JSON"}

(* C15: in individual-attribute mode a workflow Create or Update whose     *)
(* name, nodes or connections is missing, or whose nodes, connections,     *)
(* settings or tags is malformed JSON, fails with an error naming such an  *)
(* attribute, before any remote request and without changing the state.    *)
C15_RequiredAttributes ==
    (AttributeMode /\ BadAttributes # {}) =>
        /\ HasError(last.diags)
        /\ \E f \in BadAttributes : last.diags[1].summary \in Naming(f)
        /\ last.calls = <<>>
        /\ wfState = last.prior

-----------------------------------------------------------------------------
(* User Update *)

\* The requests a user Update with the last plan makes when nothing fails.
PlannedRole == ValueString(last.plan.role)

RolePatch ==
    Call("PATCH", "/api/v1/users/%s/role", IdOf(last.prior), <<[newRoleName |-> PlannedRole]>>)

UserGet == Call("GET", "/api/v1/users/%s", IdOf(last.prior), <<>>)

IsPrefix(s, t) == Len(s) <= Len(t) /\ \A i \in 1..Len(s) : s[i] = t[i]

\* A step that leaves everything of every remote user but the role as it was.
OnlyRolesChange ==
    /\ DOMAIN users' = DOMAIN users
    /\ \A id \in DOMAIN users : [users'[id] EXCEPT !.role = users[id].role] = users[id]

(* C16 as stated: every user Update that succeeds has made exactly one     *)
(* PATCH to the role endpoint carrying the planned role and then one read  *)
(* of the user.                                                            *)
C16_AlwaysOnePatch ==
    (last.op = "UserUpdate" /\ ~HasError(last.diags)) => last.calls = <<RolePatch, UserGet>>

(* C16, amended: a user Update changes nothing on the remote except the    *)
(* role.  With a non-empty planned role its requests are one PATCH to the  *)
(* role endpoint carrying that role and then a read of the user; with an   *)
(* empty planned role it makes the read only.  A failing request ends the  *)
(* operation.  No request carries the email, and after a success the state *)
(* holds what the read returned.                                           *)
C16_UpdateWritesRoleOnly ==
    /\ [](last.op = "UserUpdate" =>
            LET expected == IF PlannedRole # "" THEN <<RolePatch, UserGet>> ELSE <<UserGet>>
                id == IdOf(last.prior) IN
            /\ IsPrefix(last.calls, expected)
            /\ ~HasError(last.diags) => last.calls = expected
            /\ \A i \in 1..Len(last.calls) :
                  last.calls[i].body # <<>> => "email" \notin DOMAIN last.calls[i].body[1]
            /\ ~HasError(last.diags) =>
                  /\ userState.id = last.prior.id
                  /\ userState.email = Val(users[id].email)
                  /\ userState.is_owner = Val(users[id].isOwner)
                  /\ userState.is_pending = Val(users[id].isPending)
                  /\ userState.created_at = Val(users[id].createdAt)
                  /\ userState.updated_at = Val(users[id].updatedAt)
                  /\ userState.role = Val(IF last.env.show # "none" THEN users[id].role
                                          ELSE PlannedRole))
    /\ [][last'.op = "UserUpdate" => OnlyRolesChange]_vars

\* An Update to another role went through: the PATCH and the read were made
\* and the remote user has the planned role.
C16_Witness ==
    /\ last.op = "UserUpdate"
    /\ ~HasError(last.diags)
    /\ PlannedRole = "global:admin"
    /\ last.prior.role # Val("global:admin")
    /\ last.calls = <<RolePatch, UserGet>>
    /\ users[IdOf(last.prior)].role = "global:admin"

-----------------------------------------------------------------------------
(* Workflow Create: the error after a failed tag assignment *)

\* The text s holds a and, somewhere after it, b.
ContainsBoth(s, a, b) ==
    \E i \in 1..Len(s), j \in 1..Len(s) :
        /\ i + Len(a) <= j
        /\ j + Len(b) - 1 <= Len(s)
        /\ SubSeq(s, i, i + Len(a) - 1) = a
        /\ SubSeq(s, j, j + Len(b) - 1) = b

(* C17: when the tag assignment of a workflow Create fails, the operation  *)
(* reports one error whose text holds the error of the tag assignment;     *)
(* when the compensating delete fails too, the same single error holds the *)
(* error of the tag assignment and the error of the delete.                *)
C17_TagFailureNamed ==
    TagAssignmentFailed =>
        LET tagErr == doRequest(last.env.tags)
            deleteErr == doRequest(last.env.delete) IN
        /\ Len(last.diags) = 1
        /\ HasError(last.diags)
        /\ Contains(last.diags[1].detail, <<"failed to update workflow tags: ">> \o tagErr)
             \/ Contains(last.diags[1].detail,
                         <<"failed to update workflow tags, workflow rolled back: ">> \o tagErr)
        /\ Failed(last.env.delete) =>
             ContainsBoth(last.diags[1].detail, tagErr,
                          <<" (also failed to clean up workflow: ">> \o deleteErr)

\* A Create whose tag assignment and whose compensating delete both failed.
C17_Witness ==
    /\ TagAssignmentFailed
    /\ Len(last.calls) = 3
    /\ Failed(last.env.delete)
    /\ last.env.id \in DOMAIN workflows
    /\ wfState = Null

-----------------------------------------------------------------------------
(* Workflow Create and Update: the tag assignment *)

\* The tag entries the last plan supplies: the tags array of the document
\* in workflow_json mode, the tags attribute otherwise.
SuppliedTags ==
    IF UsesWorkflowJSON(last.plan)
    THEN IF ValueText(last.plan.workflow_json).wf = "ok" /\ SuppliedDoc.tags.t = "arr"
         THEN SuppliedDoc.tags.c ELSE <<>>
    ELSE IF ValueText(last.plan.tags).wf = "ok" /\ ValueText(last.plan.tags).val.t = "arr"
         THEN ValueText(last.plan.tags).val.c ELSE <<>>

HasId(tag) == tag.kind = "map" /\ tag.id.p = "str" /\ tag.id.v # ""

\* The answer to the base request of the last Create or Update.
BaseAnswer == IF last.op = "WorkflowCreate" THEN last.env.post ELSE last.env.put

(* C18: in a workflow Create or Update a request to the tag-assignment     *)
(* endpoint is the second request, made after the create or update request *)
(* was answered with success, and is made only when some supplied tag has  *)
(* a non-empty id.                                                         *)
C18_TagCallAfterBase ==
    WorkflowWritten =>
        \A i \in 1..Len(last.calls) :
            IsTagCall(last.calls[i]) =>
                /\ i = 2
                /\ IsBaseCall(last.calls[1])
                /\ ~Failed(BaseAnswer)
                /\ \E k \in 1..Len(SuppliedTags) : HasId(SuppliedTags[k])

\* An Update that assigned tags after its update request went through.
C18_Witness ==
    /\ last.op = "WorkflowUpdate"
    /\ Len(last.calls) = 2
    /\ IsBaseCall(last.calls[1])
    /\ IsTagCall(last.calls[2])
    /\ ~HasError(last.diags)
    /\ workflows[IdOf(last.prior)].tags # <<>>

(* C19: no request of a workflow Create or Update to the tag-assignment    *)
(* endpoint carries an entry with an empty id, also when other tags of the *)
(* same list have ids.                                                     *)
C19_EmptyIdsNeverSent ==
    WorkflowWritten =>
        \A i \in 1..Len(last.calls) :
            IsTagCall(last.calls[i]) =>
                \A k \in 1..Len(last.calls[i].body[1]) : last.calls[i].body[1][k].id # ""

-----------------------------------------------------------------------------
(* The transport *)

\* The text s ends with the text t.
EndsWith(s, t) == Len(t) <= Len(s) /\ SubSeq(s, Len(s) - Len(t) + 1, Len(s)) = t

(* C20: doRequest returns no error exactly when the status of the answer   *)
(* is in 200..299, and then returns the response body; for every other     *)
(* status it returns an error whose text holds the status code and ends    *)
(* with the response body as received, and returns no body.  A request     *)
(* that got no answer returns an error and no body either.                 *)
C20_SuccessIs2xx ==
    last.op = "doRequest" =>
        LET resp == last.env.resp
            err == last.env.err
            body == last.env.body IN
        /\ resp.kind = "http" =>
             /\ err = NoErr <=> resp.status \in 200..299
             /\ err = NoErr => body = Bytes(resp.body)
             /\ err # NoErr =>
                  /\ body = NilBytes
                  /\ Contains(err, Digits(resp.status))
                  /\ EndsWith(err, resp.body)
        /\ resp.kind = "net" => err # NoErr /\ body = NilBytes

\* A request answered with status 300 and a body: the first status past the
\* range of success.
C20_Witness ==
    /\ last.op = "doRequest"
    /\ last.env.resp.kind = "http"
    /\ last.env.resp.status = 300
    /\ last.env.resp.body # <<>>
    /\ last.env.err # NoErr

-----------------------------------------------------------------------------
(* No retries *)

\* The answers the requests of the last workflow operation got, in the
\* order the operation makes them.
WorkflowAnswers ==
    CASE last.op = "WorkflowCreate" -> <<last.env.post, last.env.tags, last.env.delete>>
      [] last.op = "WorkflowUpdate" -> <<last.env.put, last.env.tags>>
      [] last.op = "WorkflowRead" -> <<last.env.get>>
      [] last.op = "WorkflowDelete" -> <<last.env.delete>>
      [] OTHER -> <<>>

-----------------------------------------------------------------------------
(* User Create *)

\* The creation request of the last user Create was served.
UserPosted == last.op = "UserCreate" /\ ~Failed(last.env.post)

(* C22: a user Create sends one POST whose body is a list holding the one  *)
(* user of the plan.  When the list of results is empty or its first       *)
(* result carries an error, Create fails, makes no further request and     *)
(* stores no state; otherwise, whatever results follow the first, it reads *)
(* the user of the id returned and stores state exactly when that read     *)
(* succeeded.                                                              *)
C22_FirstResultDecides ==
    last.op = "UserCreate" =>
        /\ Len(last.calls) >= 1
        /\ last.calls[1] = Call("POST", "/api/v1/users", 0,
                                <<<<[email |-> ValueString(last.plan.email),
                                     role |-> ValueString(last.plan.role)]>>>>)
        /\ (UserPosted /\ ~FirstIsUser(last.env.result)) =>
              /\ HasError(last.diags)
              /\ Len(last.calls) = 1
              /\ userState = Null
        /\ (UserPosted /\ FirstIsUser(last.env.result)) =>
              /\ Len(last.calls) = 2
              /\ last.calls[2] = Call("GET", "/api/v1/users/%s", last.env.id, <<>>)
              /\ HasError(last.diags) <=> Failed(last.env.get)
              /\ IF Failed(last.env.get) THEN userState = Null
                 ELSE userState # Null /\ IdOf(userState) = last.env.id

(* C25: a user Create that returned an error has left no new user on the   *)
(* remote: the id the remote would give the new user is still unused, and  *)
(* no state is stored.                                                     *)
C25_FailedCreateLeavesNoUser ==
    (last.op = "UserCreate" /\ HasError(last.diags)) =>
        /\ last.env.id \notin DOMAIN users
        /\ userState = Null

\* A Create answered with the user's result and a failed result behind it:
\* the user was read and stored.
C22_Witness ==
    /\ UserPosted
    /\ last.env.result = <<"user", "error">>
    /\ Len(last.calls) = 2
    /\ userState # Null
    /\ IdOf(userState) \in DOMAIN users

-----------------------------------------------------------------------------
(* Workflow activation: identity and effect *)

(* C23: whenever an activation is stored in state (after Create, Import,   *)
(* Read or Update) its id attribute is known and equals its workflow_id    *)
(* attribute.                                                              *)
C23_IdIsWorkflowId ==
    actState # Null =>
        /\ actState.id.k = "val"
        /\ actState.id = actState.workflow_id

\* An Update went through on an activation that a Create had stored.
C23_Witness ==
    /\ last.op = "ActivationUpdate"
    /\ ~HasError(last.diags)
    /\ Len(last.calls) = 1
    /\ actState # Null
    /\ actState.active # last.prior.active

(* C24: after every activation Create or Update that returned without      *)
(* error the workflow exists on the remote and its active flag is the      *)
(* planned one, also when the flag stored in state differed from the       *)
(* remote's when the Update began.                                         *)
C24_RemoteIsPlanned ==
    (last.op \in {"ActivationCreate", "ActivationUpdate"} /\ ~HasError(last.diags)) =>
        LET id == last.plan.workflow_id.v IN
        /\ id \in DOMAIN workflows
        /\ workflows[id].active = ValueBool(last.plan.active)

\* An Update went through although the flag in state was not the remote's
\* when it began.
C24_Witness ==
    /\ last.op = "ActivationUpdate"
    /\ ~HasError(last.diags)
    /\ last.env.exists
    /\ ValueBool(last.prior.active) # last.env.active
    /\ Len(last.calls) = 1
    /\ workflows[last.plan.workflow_id.v].active = ValueBool(last.plan.active)

(* C30: an activation Delete whose read of the workflow is answered with   *)
(* status 404 ends without error and without a deactivate call and removes *)
(* the state; a Delete whose read fails in another way, or whose           *)
(* deactivate call fails, raises an error and keeps the state.             *)
C30_DeleteOfMissingWorkflow ==
    last.op = "ActivationDelete" =>
        /\ last.env.get.status = 404 =>
              /\ ~HasError(last.diags)
              /\ TransitionCalls = <<>>
              /\ actState = Null
        /\ (Failed(last.env.get) /\ last.env.get.status # 404) =>
              /\ HasError(last.diags)
              /\ actState = last.prior
        /\ (Len(last.calls) = 2 /\ Failed(last.env.switch)) =>
              /\ HasError(last.diags)
              /\ actState = last.prior

-----------------------------------------------------------------------------
(* Workflow Update: failure and tags *)

(* C26: a workflow Update that returned an error has changed neither the   *)
(* remote workflows nor the state.                                         *)
C26_FailedUpdateChangesNothing ==
    [][(last'.op = "WorkflowUpdate" /\ HasError(last'.diags)) =>
           (workflows' = workflows /\ wfState' = wfState)]_vars

(* C27: after a workflow Create or Update that returned without error and  *)
(* whose plan supplied tags (in the tags attribute or inside               *)
(* workflow_json), the tags attribute of the state encodes the supplied    *)
(* tags, also when none of them has an id.                                 *)
C27_StateHoldsSuppliedTags ==
    (WorkflowWritten /\ ~HasError(last.diags) /\ SuppliedTags # <<>>) =>
        /\ wfState # Null
        /\ wfState.tags.k = "val"
        /\ Unmarshal(ValueText(wfState.tags), "arr").val = JArr(SuppliedTags)

-----------------------------------------------------------------------------
(* Workflow state: the tags attribute *)

\* The last operation was a workflow Create, Read or Update that stored state.
WorkflowStored ==
    /\ last.op \in {"WorkflowCreate", "WorkflowRead", "WorkflowUpdate"}
    /\ ~HasError(last.diags)
    /\ wfState # Null

\* The entries of the tags attribute of the last plan.
AttributeTags ==
    IF ValueText(last.plan.tags).wf = "ok" /\ ValueText(last.plan.tags).val.t = "arr"
    THEN ValueText(last.plan.tags).val.c ELSE <<>>

\* Neither the plan of the last operation (its document, its tags attribute)
\* nor the remote workflow has a tag.
NoTagsAnywhere ==
    /\ last.op # "WorkflowRead" => (SuppliedTags = <<>> /\ AttributeTags = <<>>)
    /\ IdOf(wfState) \in DOMAIN workflows => workflows[IdOf(wfState)].tags = <<>>

(* C28: after every workflow Create, Read or Update that stored state, the *)
(* tags attribute of the state is known and its text is a JSON array; the  *)
(* array is empty when neither the configuration nor the remote has a tag. *)
C28_TagsIsArray ==
    WorkflowStored =>
        /\ wfState.tags.k = "val"
        /\ ValueText(wfState.tags).wf = "ok"
        /\ ValueText(wfState.tags).val.t = "arr"
        /\ NoTagsAnywhere => ValueText(wfState.tags).val = JArr(<<>>)

-----------------------------------------------------------------------------
(* Workflow Delete and credential Delete *)

(* C29: a workflow Delete and a credential Delete remove the state exactly *)
(* when the remote DELETE was answered with success; on every failure, a   *)
(* not-found answer for an entity already removed upstream included, they  *)
(* raise an error and keep the state.                                      *)
C29_DeleteNeedsRemoteSuccess ==
    /\ last.op = "WorkflowDelete" =>
          IF Failed(last.env.delete)
          THEN HasError(last.diags) /\ wfState = last.prior
          ELSE ~HasError(last.diags) /\ wfState = Null
    /\ last.op = "CredentialDelete" =>
          IF Failed(last.env.delete)
          THEN HasError(last.diags) /\ credState = last.prior
          ELSE ~HasError(last.diags) /\ credState = Null

\* A workflow Delete answered with not-found, the workflow having been
\* removed upstream, beside a credential that is still in state.
C29_Witness ==
    /\ last.op = "WorkflowDelete"
    /\ last.env.delete.status = 404
    /\ IdOf(last.prior) \notin DOMAIN workflows
    /\ wfState = last.prior
    /\ credState # Null

====
